---- MODULE Spec2Model ----
(***************************************************************************)
(* A model of the runtime coordination layer of AgentiCorp.                *)
(*                                                                         *)
(* Part 1: the loop detector of internal/dispatch/loop_detector.go:        *)
(* RecordAction, IsStuckInLoop and their helpers, operating on the         *)
(* "action_history" and "progress_metrics" entries of one bead's context.  *)
(*                                                                         *)
(* Strings are sequences of tokens and string concatenation is \o, so the  *)
(* canonical string of a progress key is built the way fmt.Sprintf builds  *)
(* it.  Time is counted in minutes.                                        *)
(***************************************************************************)
EXTENDS Integers, Sequences, FiniteSets, TLC

VARIABLES
    repeatThreshold,   \* LoopDetector.repeatThreshold
    action_history,    \* bead.Context["action_history"]
    progress_metrics,  \* bead.Context["progress_metrics"]
    now,               \* the wall clock, time.Now(), in minutes
    op,                \* the operation performed last
    verdict,           \* what the last IsStuckInLoop returned
    lastAction,        \* the argument of the last RecordAction
    prevMetrics,       \* progress_metrics before the last RecordAction
    recorded,          \* the argument of every RecordAction so far, oldest first
    keyA, keyB,        \* two actions handed to generateProgressKey
    keyOut,            \* the progress keys computed for keyA and keyB
    cpc,               \* where each concurrent RecordAction call stands
    clocal,            \* the local variables of each concurrent call
    fatal,             \* the runtime has stopped the process
    enabled,           \* RedisCache.config.Enabled
    redis,             \* the Redis server: what it holds under "cache:"+key
    stats,             \* RedisCache.stats
    gpc,               \* where each client's Get call stands
    glocal,            \* the local variables of each client's Get call
    returned,          \* what the Get that returned last returned
    sets,              \* the number of Set calls so far
    settled,           \* per key, what the last completed write left there
    cop,               \* the cache operation that completed last
    before,            \* what Redis held before that operation
    result,            \* the number that operation returned
    removals,          \* the number of Delete and Invalidate* calls so far
    gets,              \* per key, the Get calls on the enabled cache that have returned
    atSet,             \* per key, gets and stats when the last Set of the key completed
    definition,        \* the WorkflowDefinition the bead is admitted to
    execution,         \* the bead's WorkflowExecution
    beadStatus,        \* the status of the bead
    approvals,         \* the approval beads the engine has created
    calls,             \* the outcome of every Advance so far, oldest first
    wfLast,            \* the last workflow operation and the execution before it
    candidate,         \* a workflow definition handed to the loader
    loadResult,        \* what the loader said about it
    held,              \* the commit locks held: lock key and holder
    commits,           \* where the serialized attempt of each execution stands
    lockNow,           \* the wall clock of the commit locks, in minutes
    beadOwner,         \* assigned_to and context.redispatch_requested of the bead
    dispatches,        \* the dispatches of the bead so far, oldest first
    parent,            \* the bead that is escalated to the CEO
    decision,          \* the decision bead of the escalation
    lines,             \* the lines the response body delivers
    ending,            \* how the body ends after them: end of file or read error
    spc,               \* where readStreamingResponse stands
    pos,               \* the number of lines scanner.Scan has returned
    chunksReceived,    \* readStreamingResponse's local chunksReceived
    ctxDone,           \* ctx is cancelled
    readLate,          \* ctx was cancelled when the line at hand was read
    handled,           \* the handler's invocations so far, oldest first
    streamErr,         \* what readStreamingResponse returned
    subscribers,       \* Manager.subscribers: user, subscriber -> channel contents
    notified,          \* the number of notifications broadcast so far
    received,          \* the last notification each subscriber has taken from its channel
    sent,              \* the last broadcast, and the operations counted so far
    subscribersByUser, \* Manager.subscribers: user -> subscriber -> channel
    channels,          \* every channel Subscribe has made, in the order of making
    subscribersMu,     \* Manager.subscribersMu: the writer and the readers that hold it
    workers,           \* where each goroutine that calls Subscribe or Unsubscribe stands
    activityLoop,      \* where the goroutine of subscribeToActivities stands
    trail,             \* per user, what ProcessActivity did for the activity at hand
    faults,            \* the run-time panics so far
    cache,             \* ProjectGitRouter.cache: project -> adapter
    gitCalls,          \* where each goroutine's forProject call stands
    adapters,          \* the project of every GitServiceAdapter created so far
    handed,            \* (project, adapter) for every adapter forProject has returned
    providerMetrics,   \* the scorer's provider table, in the order of registration
    ranking,           \* the last RankProvidersForComplexity: complexity and result
    lessonDB,          \* the lessons of the project, oldest first
    lessonCall,        \* the arguments and circumstances of the last retrieval
    lessonBlock,       \* the block that retrieval returned
    extraction,        \* the arguments of the ExtractFromLoop under way
    pending,           \* the extracted lessons that are not stored yet
    storeCalls         \* the calls of the lesson store so far, oldest first

loopVars == <<repeatThreshold, action_history, progress_metrics, now, op,
              verdict, lastAction, prevMetrics, recorded>>

keyVars == <<keyA, keyB, keyOut>>

concVars == <<cpc, clocal, fatal>>

cacheGhost == <<settled, cop, before, result, removals, gets, atSet>>

cacheVars == <<enabled, redis, stats, gpc, glocal, returned, sets, cacheGhost>>

wfVars == <<definition, execution, beadStatus, approvals, calls, wfLast>>

valVars == <<candidate, loadResult>>

lockVars == <<held, commits, lockNow>>

dispVars == <<beadOwner, dispatches>>

ceoVars == <<parent, decision>>

streamVars == <<lines, ending, spc, pos, chunksReceived, ctxDone, readLate,
                handled, streamErr>>

subVars == <<subscribers, notified, received, sent>>

hubVars == <<subscribersByUser, channels, subscribersMu, workers, activityLoop,
             trail, faults>>

gitVars == <<cache, gitCalls, adapters, handed>>

rankVars == <<providerMetrics, ranking>>

lessonVars == <<lessonDB, lessonCall, lessonBlock>>

extractVars == <<extraction, pending, storeCalls>>

\* The variables of the notification hub and the parts after it.
lateVars == <<hubVars, gitVars, rankVars, lessonVars, extractVars>>

\* The variables of the parts between the workflow engine and the hub.
earlyVars == <<valVars, lockVars, dispVars, ceoVars, streamVars, subVars>>

\* The variables of the parts that follow the workflow engine.
partVars == <<valVars, lockVars, dispVars, ceoVars, streamVars, subVars, lateVars>>

\* What the operations of each part leave alone.
outsideLoop == <<keyVars, concVars, cacheVars, wfVars, partVars>>
outsideKey == <<loopVars, concVars, cacheVars, wfVars, partVars>>
outsideConc == <<keyVars, cacheVars, wfVars, partVars>>
outsideCache == <<repeatThreshold, action_history, progress_metrics, op, verdict,
                  lastAction, prevMetrics, recorded, keyVars, concVars, wfVars,
                  partVars>>

outsideWorkflow == <<loopVars, keyVars, concVars, cacheVars, partVars>>

\* The variables of the parts up to the workflow engine.
coreVars == <<loopVars, keyVars, concVars, cacheVars, wfVars>>

outsideValidation == <<coreVars, lockVars, dispVars, ceoVars, streamVars, subVars,
    lateVars>>
outsideLock == <<coreVars, valVars, dispVars, ceoVars, streamVars, subVars,
    lateVars>>
outsideDispatch == <<loopVars, keyVars, concVars, cacheVars, valVars, lockVars,
                     ceoVars, streamVars, subVars, lateVars>>
outsideCEO == <<coreVars, valVars, lockVars, dispVars, streamVars, subVars,
    lateVars>>
outsideStream == <<coreVars, valVars, lockVars, dispVars, ceoVars, subVars,
    lateVars>>
outsideSubscribers == <<coreVars, valVars, lockVars, dispVars, ceoVars, streamVars,
                        lateVars>>

outsideHub == <<coreVars, earlyVars, gitVars, rankVars, lessonVars, extractVars>>
outsideGit == <<coreVars, earlyVars, hubVars, rankVars, lessonVars, extractVars>>
outsideRank == <<coreVars, earlyVars, hubVars, gitVars, lessonVars, extractVars>>
outsideLessons == <<coreVars, earlyVars, hubVars, gitVars, rankVars, extractVars>>
outsideExtract == <<coreVars, earlyVars, hubVars, gitVars, rankVars, lessonVars>>

vars == <<loopVars, keyVars, concVars, cacheVars, wfVars, partVars>>

----------------------------------------------------------------------------
(* Bounds of the model *)

MaxHistory == 6      \* RecordAction calls per run of Spec
MaxTime == 6         \* the clock runs from 1 to MaxTime
MaxThreshold == 3    \* SetRepeatThreshold is called with 1..MaxThreshold
Prefill == 48        \* records the bead of SpecLimit holds at its start
MaxExtra == 4        \* RecordAction calls per run of SpecLimit
MaxTyped == 2        \* RecordAction calls per run of SpecMetrics
MaxRecords == 4      \* RecordAction calls per run of SpecProgress
MaxChannels == 3     \* Subscribe calls per run of SpecHub
MaxActivities == 1   \* activities per run of SpecHub
MaxAdapters == 3     \* adapters created per run of SpecGit
MaxLessons == 3      \* lessons recorded per run of SpecLessons
MaxEntries == 2      \* entries of a transcript in SpecExtract
MaxProviders == 4    \* providers registered per run of SpecRank
MaxCalls == 3        \* RecordAction calls per run of SpecConc
MaxCacheTime == 4    \* the clock of SpecCache runs from 1 to MaxCacheTime
MaxSets == 2         \* Set calls per run of SpecCache
MaxGets == 3         \* Get calls per run of SpecCache
MaxRemovals == 1     \* Delete and Invalidate* calls per run of SpecCacheOps
MaxSeqTime == 6      \* the clock of SpecCacheSeq runs from 1 to MaxSeqTime
MaxAdvance == 7      \* Advance calls and timeouts per run of SpecWorkflow
MaxEdges == 3        \* edges of a definition handed to the loader
MaxLockTime == 7     \* minutes that pass in SpecLock
MaxDispatch == 3     \* dispatch cycles in SpecDispatch
MaxLines == 3        \* lines of a streamed response body
Backlog == 98        \* notifications a slow subscriber has not taken at the start
MaxBroadcasts == 4   \* broadcasts per run of SpecSubscribers
MaxOthers == 3       \* Subscribe, Unsubscribe and receive operations per run of SpecSubscribers
DefaultTTL == 2      \* config.DefaultTTL, in minutes

(* Constants of the program *)

DefaultThreshold == 3
MinThreshold == 2
HistoryLimit == 50
RecentWindow == 15
ProgressWindow == 5  \* 5*time.Minute
ZeroTime == 0        \* the zero time.Time; the clock starts after it
DefaultMaxAttempts == 3  \* max_attempts of a node that declares none
LockTimeout == 5                 \* minutes after which a commit lock is released
DefaultTopK == 5                 \* the top-K of a call that gives none
CharBudget == 2000               \* "Format as markdown (max 2000 chars)"
HeaderLength == 80               \* the two lines that open a block of relevant lessons
EntryOverhead == 11              \* what the format of an entry adds to its three strings
ChannelCapacity == 100           \* make(chan *Notification, 100)

----------------------------------------------------------------------------
(* Values *)

\* The last n elements of sequence s (s itself when it is not longer).
LastN(s, n) == IF Len(s) > n THEN SubSeq(s, Len(s) - n + 1, Len(s)) ELSE s

\* A value of the ActionData map: absent, a string, or a number.
Absent == [kind |-> "absent", v |-> <<>>]
StrVal(s) == [kind |-> "string", v |-> s]
NumVal(s) == [kind |-> "number", v |-> s]

\* The keys an ActionData map may hold, in the sorted order %v prints them.
DataKeys == <<"command", "file_path", "index">>

NoKey == <<>>        \* the empty string

\* strconv.Itoa for the small numbers the model prints.
Digits == <<"1", "2", "3", "4", "5", "6", "7", "8", "9">>

\* fmt's %v of map[string]interface{}: map[k1:v1 k2:v2], keys sorted.
RECURSIVE FormatEntries(_, _, _)
FormatEntries(data, i, first) ==
    IF i > Len(DataKeys) THEN <<>>
    ELSE LET k == DataKeys[i] IN
         IF data[k].kind = "absent" THEN FormatEntries(data, i + 1, first)
         ELSE (IF first THEN <<>> ELSE <<" ">>) \o <<k, ":">> \o data[k].v
              \o FormatEntries(data, i + 1, FALSE)

FormatData(data) == <<"map[">> \o FormatEntries(data, 1, TRUE) \o <<"]">>

\* hex(sha256(keyData)[:8]).  The hash is kept symbolic: equal strings give
\* equal keys, and collisions of the 64-bit prefix are not modelled.
Sha256Prefix(keyData) == <<"sha256:">> \o keyData

\* generateProgressKey: the default signature, overwritten by the file path
\* when it is a string, overwritten again by the command when it is a string.
generateProgressKey(action) ==
    LET data == action.ActionData
        k0 == action.ActionType \o <<":">> \o FormatData(data)
        k1 == IF data.file_path.kind = "string"
              THEN action.ActionType \o <<":">> \o data.file_path.v ELSE k0
        k2 == IF data.command.kind = "string"
              THEN action.ActionType \o <<":">> \o data.command.v ELSE k1
    IN Sha256Prefix(k2)

----------------------------------------------------------------------------
(* The bead context *)

EmptyContextValue == [parses |-> TRUE, records |-> <<>>]

\* getActionHistory: (history, err)
getActionHistory(stored) ==
    IF stored.parses THEN [err |-> FALSE, history |-> stored.records]
    ELSE [err |-> TRUE, history |-> <<>>]

NoMetrics ==
    [set |-> FALSE, FilesRead |-> 0, FilesModified |-> 0, TestsRun |-> 0,
     CommandsExecuted |-> 0, LastProgress |-> ZeroTime]

\* A stored progress_metrics text json.Unmarshal rejects carries the field
\* "bad": "syntax" for text that is not JSON at all, "type" for a JSON object
\* one of whose values has the wrong type (here tests_run).  Its other fields
\* are the values the text holds.
Unparsable(stored) == "bad" \in DOMAIN stored

\* An Unmarshal that leaves the struct untouched whenever it reports an error.
UnmarshalAllOrNothing(stored) ==
    IF ~Unparsable(stored) THEN stored
    ELSE [NoMetrics EXCEPT !.set = TRUE]

\* "var metrics ProgressMetrics; _ = json.Unmarshal(metricsJSON, &metrics)":
\* the struct after the call.  A syntax error is found before anything is
\* stored; a value of the wrong type is skipped, and the remaining fields are
\* stored although the call returns an error.
Unmarshal(stored) ==
    IF ~Unparsable(stored) THEN stored
    ELSE IF stored.bad = "syntax" THEN [NoMetrics EXCEPT !.set = TRUE]
    ELSE [set |-> TRUE, FilesRead |-> stored.FilesRead,
          FilesModified |-> stored.FilesModified, TestsRun |-> 0,
          CommandsExecuted |-> stored.CommandsExecuted,
          LastProgress |-> stored.LastProgress]

\* A truncation that keeps the oldest records instead of the newest.
TruncateHistoryHead(history) ==
    IF Len(history) > HistoryLimit THEN SubSeq(history, 1, HistoryLimit) ELSE history

\* "Keep only recent history (last 50 actions)"
TruncateHistory(history) ==
    IF Len(history) > HistoryLimit THEN LastN(history, HistoryLimit) ELSE history

\* updateProgressMetrics with "grep" missing from the first case.
updateProgressMetricsNoGrep(stored, action, t) ==
    LET ty == action.ActionType
        metrics == Unmarshal(stored)
        m1 == IF ty \in {<<"read_file">>, <<"glob">>}
                THEN [metrics EXCEPT !.FilesRead = @ + 1]
              ELSE IF ty \in {<<"edit_file">>, <<"write_file">>}
                THEN [metrics EXCEPT !.FilesModified = @ + 1]
              ELSE IF ty \in {<<"run_tests">>, <<"test">>}
                THEN [metrics EXCEPT !.TestsRun = @ + 1]
              ELSE IF ty \in {<<"bash">>, <<"execute">>}
                THEN [metrics EXCEPT !.CommandsExecuted = @ + 1]
              ELSE metrics
        progressMade == m1 # metrics
        m2 == IF progressMade THEN [m1 EXCEPT !.LastProgress = t] ELSE m1
    IN [m2 EXCEPT !.set = TRUE]

\* updateProgressMetrics whose progressMade ignores the command counter.
updateProgressMetricsNoCommand(stored, action, t) ==
    LET ty == action.ActionType
        metrics == Unmarshal(stored)
        m1 == IF ty \in {<<"read_file">>, <<"glob">>, <<"grep">>}
                THEN [metrics EXCEPT !.FilesRead = @ + 1]
              ELSE IF ty \in {<<"edit_file">>, <<"write_file">>}
                THEN [metrics EXCEPT !.FilesModified = @ + 1]
              ELSE IF ty \in {<<"run_tests">>, <<"test">>}
                THEN [metrics EXCEPT !.TestsRun = @ + 1]
              ELSE metrics
        progressMade == m1 # metrics
        m2 == IF progressMade THEN [m1 EXCEPT !.LastProgress = t] ELSE m1
        m3 == IF ty \in {<<"bash">>, <<"execute">>}
                THEN [m2 EXCEPT !.CommandsExecuted = @ + 1] ELSE m2
    IN [m3 EXCEPT !.set = TRUE]

\* updateProgressMetrics: the metrics stored after recording action at time t.
updateProgressMetrics(stored, action, t) ==
    LET ty == action.ActionType
        metrics == Unmarshal(stored)
        m1 == IF ty \in {<<"read_file">>, <<"glob">>, <<"grep">>}
                THEN [metrics EXCEPT !.FilesRead = @ + 1]
              ELSE IF ty \in {<<"edit_file">>, <<"write_file">>}
                THEN [metrics EXCEPT !.FilesModified = @ + 1]
              ELSE IF ty \in {<<"run_tests">>, <<"test">>}
                THEN [metrics EXCEPT !.TestsRun = @ + 1]
              ELSE IF ty \in {<<"bash">>, <<"execute">>}
                THEN [metrics EXCEPT !.CommandsExecuted = @ + 1]
              ELSE metrics
        progressMade == m1 # metrics
        m2 == IF progressMade THEN [m1 EXCEPT !.LastProgress = t] ELSE m1
    IN [m2 EXCEPT !.set = TRUE]

\* hasRecentProgress with the boundary minute counted as recent.
hasRecentProgressInclusive(metrics, t) ==
    IF ~metrics.set THEN FALSE
    ELSE IF Unparsable(metrics) THEN FALSE
    ELSE IF metrics.LastProgress = ZeroTime THEN FALSE
    ELSE t - metrics.LastProgress <= ProgressWindow

\* hasRecentProgress at time t
hasRecentProgress(metrics, t) ==
    IF ~metrics.set THEN FALSE
    ELSE IF Unparsable(metrics) THEN FALSE
    ELSE IF metrics.LastProgress = ZeroTime THEN FALSE
    ELSE t - metrics.LastProgress < ProgressWindow

\* The history test without the factor 2.
EnoughHistoryOnce(got, threshold) ==
    ~got.err /\ ~(Len(got.history) < threshold)

\* IsStuckInLoop's first test: is there enough history to detect a loop?
EnoughHistory(got, threshold) ==
    ~got.err /\ ~(Len(got.history) < threshold * 2)

\* The loop of findRepeatedPattern over the recent records: patternCounts
\* after the loop and the check of the last sequence.  A run of at least
\* threshold identical keys stores its length under its key, replacing what
\* an earlier run of the same key stored.
RECURSIVE CountRuns(_, _, _, _, _, _)
CountRuns(recent, i, lastKey, consecutiveCount, patternCounts, threshold) ==
    LET flushed == IF consecutiveCount >= threshold
                   THEN (lastKey :> consecutiveCount) @@ patternCounts
                   ELSE patternCounts
    IN IF i > Len(recent) THEN flushed
       ELSE IF recent[i].ProgressKey = lastKey
         THEN CountRuns(recent, i + 1, lastKey, consecutiveCount + 1,
                        patternCounts, threshold)
         ELSE CountRuns(recent, i + 1, recent[i].ProgressKey, 1, flushed, threshold)

\* No pattern counted yet: the empty map.
EmptyCounts == [k \in {} |-> 0]

\* "Find the pattern with highest repeat count": the loop ranges over a Go
\* map, whose iteration order is not specified, and replaces its candidate
\* only by a strictly larger count.  It can end with any key that holds the
\* highest count; with an empty map it ends with ("", 0).
HighestCount(patternCounts) ==
    IF DOMAIN patternCounts = {} THEN {[pattern |-> NoKey, count |-> 0]}
    ELSE LET top == CHOOSE c \in {patternCounts[k] : k \in DOMAIN patternCounts} :
                        \A k \in DOMAIN patternCounts : patternCounts[k] <= c
         IN {[pattern |-> k, count |-> top] :
                k \in {x \in DOMAIN patternCounts : patternCounts[x] = top}}

\* findRepeatedPattern: the (pattern, count) pairs a call can return.
findRepeatedPattern(history, threshold) ==
    IF Len(history) < threshold THEN {[pattern |-> NoKey, count |-> 0]}
    ELSE HighestCount(CountRuns(LastN(history, RecentWindow), 1, NoKey, 0,
                                EmptyCounts, threshold))

NotStuck == [stuck |-> FALSE, count |-> 0, pattern |-> NoKey]

\* IsStuckInLoop at time t: the (stuck, reason) pairs a call can return.  The
\* reason "Repeated action pattern <count> times without progress: <pattern>"
\* is kept as its two arguments; NotStuck stands for (false, "").
IsStuckInLoop(stored, metrics, threshold, t) ==
    LET got == getActionHistory(stored) IN
    IF ~EnoughHistory(got, threshold) THEN {NotStuck}
    ELSE IF hasRecentProgress(metrics, t) THEN {NotStuck}
    ELSE {IF r.count >= threshold
          THEN [stuck |-> TRUE, count |-> r.count, pattern |-> r.pattern]
          ELSE NotStuck : r \in findRepeatedPattern(got.history, threshold)}

\* The history RecordAction stores: the parsed history (empty when it does
\* not parse) with the keyed action appended, cut to the history limit.
NextHistory(stored, keyed) ==
    LET got == getActionHistory(stored)
        history == IF got.err THEN <<>> ELSE got.history
    IN [parses |-> TRUE, records |-> TruncateHistory(Append(history, keyed))]

\* The action as RecordAction stores it.
WithKey(action) == [action EXCEPT !.ProgressKey = generateProgressKey(action)]

----------------------------------------------------------------------------
(* Inputs *)

Data(command, file_path, index) ==
    [command |-> command, file_path |-> file_path, index |-> index]

NewAction(type, data) ==
    [Timestamp |-> 1, AgentID |-> <<"agent-1">>, ActionType |-> type,
     ActionData |-> data, ResultHash |-> <<>>, ProgressKey |-> NoKey]

ReadA == NewAction(<<"read_file">>, Data(Absent, StrVal(<<"a.go">>), Absent))
AskB == NewAction(<<"ask_followup">>, Data(Absent, Absent, NumVal(<<"1">>)))

\* The goroutines that call RecordAction in SpecConc.
Callers == {"g1", "g2"}

\* The locals of a goroutine that is in no call.
NoCall == [action |-> ReadA, history |-> <<>>, metrics |-> NoMetrics]

\* The actions recorded in Spec: one that counts as progress, one that does not.
LoopInputs == {ReadA, AskB}

----------------------------------------------------------------------------
(* Operations of the loop detector on one bead *)

\* The clients that call the cache in SpecCache, and the keys they use.
Clients == {"c1", "c2"}
CacheKeys == {"k1"}

\* An Entry with every field zero.
NoEntry ==
    [Key |-> "", Response |-> "", CachedAt |-> ZeroTime, ExpiresAt |-> ZeroTime,
     Hits |-> 0, ProviderID |-> "", ModelName |-> "", TokensSaved |-> 0]

\* What Redis holds under a key it does not have.
NoValue == [present |-> FALSE, entry |-> NoEntry, expireAt |-> ZeroTime]

\* The locals of a client that is in no Get call.
NoGet == [key |-> "", entry |-> NoEntry, ttl |-> 0, readAt |-> ZeroTime, loaded |-> 0]

\* (nil, false)
Miss == [found |-> FALSE, entry |-> NoEntry, readAt |-> ZeroTime]

\* No cache operation has completed yet.
NoOp == [name |-> "none", key |-> "", provider |-> "", model |-> "", maxAge |-> 0]

\* A step that is no write: the record of the last write is dropped.
NoWrite ==
    /\ cop' = NoOp
    /\ before' = redis'
    /\ result' = 0
    /\ UNCHANGED <<settled, removals, atSet>>

\* No write to the key has completed.
Unwritten == [present |-> FALSE, Response |-> "", by |-> "none"]

\* No Set of the key has completed.
NeverSet == [gets |-> 0, Hits |-> 0, TokensSaved |-> 0, tokens |-> 0]

GhostIdle ==
    /\ settled = [k \in DOMAIN redis |-> Unwritten]
    /\ cop = NoOp
    /\ before = redis
    /\ result = 0
    /\ removals = 0
    /\ gets = [k \in DOMAIN redis |-> 0]
    /\ atSet = [k \in DOMAIN redis |-> NeverSet]

\* A cache nobody has used yet.
CacheIdle ==
    /\ enabled = TRUE
    /\ redis = [k \in CacheKeys |-> NoValue]
    /\ stats = [Hits |-> 0, Misses |-> 0, TokensSaved |-> 0]
    /\ gpc = [c \in Clients |-> "idle"]
    /\ glocal = [c \in Clients |-> NoGet]
    /\ returned = Miss
    /\ sets = 0
    /\ GhostIdle

\* No key computation under way.
KeyIdle ==
    /\ keyA = ReadA
    /\ keyB = ReadA
    /\ keyOut = <<NoKey, NoKey>>

\* A WorkflowExecution that does not exist (yet).
NoExecution ==
    [current_node |-> "", attempts |-> 0, transitions |-> <<>>, paused |-> FALSE]

\* No workflow operation has happened.
NoWorkflowOp == [op |-> "none", outcome |-> "", context |-> {}, prev |-> NoExecution]

\* No bead has been admitted to a workflow.
WorkflowIdle ==
    /\ definition = [id |-> "", nodes |-> <<>>, edges |-> {}]
    /\ execution = NoExecution
    /\ beadStatus = "open"
    /\ approvals = <<>>
    /\ calls = <<>>
    /\ wfLast = NoWorkflowOp

\* No definition has been handed to the loader.
NoCandidate == [id |-> "", nodes |-> <<>>, edges |-> {}]

\* The loader has not run.
NotLoaded == [done |-> FALSE, order |-> <<>>, errors |-> {}]

ValidationIdle ==
    /\ candidate = NoCandidate
    /\ loadResult = NotLoaded

\* The executions that reach commit-serialized nodes, and their projects.
Executions == {"e1", "e2", "e3"}
ProjectOf(e) == IF e = "e3" THEN "p2" ELSE "p1"

\* No attempt of the execution is under way.
NoAttempt == [pc |-> "idle", since |-> 0, blockedBy |-> "", overran |-> FALSE]

LockIdle ==
    /\ held = {}
    /\ commits = [e \in Executions |-> NoAttempt]
    /\ lockNow = 0

\* The bead is unassigned and no re-dispatch is requested.
Unowned == [assigned_to |-> "", redispatch_requested |-> "false"]

DispatchIdle ==
    /\ beadOwner = Unowned
    /\ dispatches = <<>>

\* No bead is under escalation.
NoBead == [status |-> "", assigned_to |-> "", redispatch_requested |-> ""]
NoDecision == [status |-> "none", reason |-> "", requester |-> "", decision |-> ""]

CEOIdle ==
    /\ parent = NoBead
    /\ decision = NoDecision

\* readStreamingResponse has not returned.
Running == [kind |-> "running", chunks |-> 0, wraps |-> ""]

StreamIdle ==
    /\ lines = <<>>
    /\ ending = "eof"
    /\ spc = "idle"
    /\ pos = 0
    /\ chunksReceived = 0
    /\ ctxDone = FALSE
    /\ readLate = FALSE
    /\ handled = <<>>
    /\ streamErr = Running

\* No broadcast has happened.
NoBroadcast == [user |-> "", n |-> 0, count |-> 0, others |-> 0]

\* No subscriber is registered.
NoSubscribers == [k \in {} |-> <<>>]

SubscribersIdle ==
    /\ subscribers = NoSubscribers
    /\ notified = 0
    /\ received = [k \in {} |-> 0]
    /\ sent = NoBroadcast

\* The goroutine is in no call.
NoWork == [pc |-> "idle", call |-> "", user |-> "", id |-> "", ch |-> 0]

\* subscribeToActivities waits for an activity; none has arrived yet.
Waiting == [pc |-> "idle", i |-> 0, visited |-> {}, activities |-> 0, listed |-> FALSE]

\* ProcessActivity has not looked at the user.
NotSeen ==
    [seen |-> FALSE, accepted |-> FALSE, inApp |-> FALSE, persisted |-> FALSE,
     broadcast |-> FALSE]

\* NewManager: no subscriber, the mutex free.
HubIdle ==
    /\ subscribersByUser = [u \in {} |-> <<>>]
    /\ channels = <<>>
    /\ subscribersMu = [writer |-> "", readers |-> {}]
    /\ workers = [w \in {"w1", "w2"} |-> NoWork]
    /\ activityLoop = Waiting
    /\ trail = [u \in {"u1", "u2"} |-> NotSeen]
    /\ faults = {}

\* The goroutine is in no forProject call; nothing has been returned to it.
NoGitCall == [pc |-> "idle", projectID |-> "", adapter |-> 0, result |-> ""]

\* NewProjectGitRouter: an empty cache.
GitIdle ==
    /\ cache = [p \in {} |-> 0]
    /\ gitCalls = [g \in {"g1", "g2"} |-> NoGitCall]
    /\ adapters = <<>>
    /\ handed = {}

\* No ranking has been asked for.
NoRanking == [asked |-> FALSE, complexity |-> "", order |-> <<>>]

\* NewScorer: no provider.
RankIdle ==
    /\ providerMetrics = <<>>
    /\ ranking = NoRanking

\* The empty string as a lessons block.
NoBlock == [header |-> "", lessons |-> <<>>]

\* No lessons have been asked for.
NoLessonCall ==
    [asked |-> FALSE, taskContext |-> "", topK |-> 0, embedOk |-> FALSE,
     searchOk |-> FALSE, found |-> <<>>, listOk |-> FALSE]

\* A project without lessons.
LessonsIdle ==
    /\ lessonDB = <<>>
    /\ lessonCall = NoLessonCall
    /\ lessonBlock = NoBlock

\* ExtractFromLoop has not been called.
NoExtraction == [pc |-> "idle", entries |-> <<>>, terminalReason |-> "", lessons |-> <<>>]

ExtractIdle ==
    /\ extraction = NoExtraction
    /\ pending = <<>>
    /\ storeCalls = <<>>

\* The hub and the parts after it are idle.
LateIdle == HubIdle /\ GitIdle /\ RankIdle /\ LessonsIdle /\ ExtractIdle

\* The parts that follow the workflow engine are idle.
PartsIdle ==
    /\ ValidationIdle
    /\ LockIdle
    /\ DispatchIdle
    /\ CEOIdle
    /\ StreamIdle
    /\ SubscribersIdle
    /\ LateIdle

\* No concurrent call under way.
ConcIdle ==
    /\ cpc = [g \in Callers |-> "idle"]
    /\ clocal = [g \in Callers |-> NoCall]
    /\ fatal = FALSE

\* NewLoopDetector, and a bead with an empty context.
LoopStart ==
    /\ repeatThreshold = DefaultThreshold
    /\ action_history = EmptyContextValue
    /\ progress_metrics = NoMetrics
    /\ now = 1
    /\ op = "new"
    /\ verdict = NotStuck
    /\ lastAction = ReadA
    /\ prevMetrics = NoMetrics
    /\ recorded = <<>>

InitLoop == LoopStart /\ KeyIdle /\ ConcIdle /\ CacheIdle /\ WorkflowIdle /\ PartsIdle

SetRepeatThreshold(threshold) ==
    /\ repeatThreshold' = IF threshold < MinThreshold THEN MinThreshold ELSE threshold
    /\ op' = "SetRepeatThreshold"
    /\ verdict' = NotStuck
    /\ lastAction' = ReadA
    /\ prevMetrics' = NoMetrics
    /\ UNCHANGED <<action_history, progress_metrics, now, recorded>>
    /\ UNCHANGED outsideLoop

\* RecordAction(bead, action), called by the one thread that holds the bead.
RecordAction(action) ==
    /\ action_history' = NextHistory(action_history, WithKey(action))
    /\ progress_metrics' = updateProgressMetrics(progress_metrics, WithKey(action), now)
    /\ op' = "RecordAction"
    /\ verdict' = NotStuck
    /\ lastAction' = action
    /\ prevMetrics' = progress_metrics
    /\ recorded' = Append(recorded, action)
    /\ UNCHANGED <<repeatThreshold, now>>
    /\ UNCHANGED outsideLoop

\* IsStuckInLoop(bead)
QueryStuck ==
    /\ verdict' \in IsStuckInLoop(action_history, progress_metrics, repeatThreshold, now)
    /\ op' = "IsStuckInLoop"
    /\ lastAction' = ReadA
    /\ prevMetrics' = NoMetrics
    /\ UNCHANGED <<repeatThreshold, action_history, progress_metrics, now, recorded>>
    /\ UNCHANGED outsideLoop

\* A minute passes.
Tick ==
    /\ now < MaxTime
    /\ now' = now + 1
    /\ op' = "Tick"
    /\ verdict' = NotStuck
    /\ lastAction' = ReadA
    /\ prevMetrics' = NoMetrics
    /\ UNCHANGED <<repeatThreshold, action_history, progress_metrics, recorded>>
    /\ UNCHANGED outsideLoop

Configure == \E threshold \in 1..MaxThreshold : SetRepeatThreshold(threshold)

RecordStep ==
    /\ Len(recorded) < MaxHistory
    /\ \E action \in LoopInputs : RecordAction(action)

Init == InitLoop

Next == Configure \/ RecordStep \/ QueryStuck \/ Tick

Spec == Init /\ [][Next]_vars

----------------------------------------------------------------------------
(* Properties of the stuck query, checked under Spec *)

\* The progress keys of the records IsStuckInLoop examines.
RecentKeys ==
    LET recent == LastN(action_history.records, RecentWindow)
    IN [i \in 1..Len(recent) |-> recent[i].ProgressKey]

\* The length of the run of identical elements of s that ends at position i.
RECURSIVE RunEndingAt(_, _)
RunEndingAt(s, i) ==
    IF i > 1 /\ s[i] = s[i - 1] THEN 1 + RunEndingAt(s, i - 1) ELSE 1

\* The length of the longest run of consecutive identical elements of s.
LongestRun(s) ==
    IF s = <<>> THEN 0
    ELSE CHOOSE n \in {RunEndingAt(s, i) : i \in 1..Len(s)} :
            \A i \in 1..Len(s) : RunEndingAt(s, i) <= n

\* The positions at which a run of the longest length ends.
LongestRunEnds(s) == {i \in 1..Len(s) : RunEndingAt(s, i) = LongestRun(s)}

\* The last progress is at least five minutes old (or there never was any).
ProgressIsOld ==
    \/ progress_metrics.LastProgress = ZeroTime
    \/ now - progress_metrics.LastProgress >= ProgressWindow

Queried == op = "IsStuckInLoop" /\ action_history.parses

\* C2: with at least 2*repeat_threshold records and the last progress five
\* minutes old or more, IsStuckInLoop returns stuck exactly when the longest
\* run of identical progress keys among the last 15 records is at least
\* repeat_threshold, and the count in the reason is the length of that run.
C2_CountIsLongestRun ==
    (Queried /\ Len(action_history.records) >= 2 * repeatThreshold /\ ProgressIsOld)
        => /\ verdict.stuck <=> LongestRun(RecentKeys) >= repeatThreshold
           /\ verdict.stuck => verdict.count = LongestRun(RecentKeys)

\* The half of C2 the code does meet: the verdict itself.
C2_VerdictOnly ==
    (Queried /\ Len(action_history.records) >= 2 * repeatThreshold /\ ProgressIsOld)
        => (verdict.stuck <=> LongestRun(RecentKeys) >= repeatThreshold)

\* C4: IsStuckInLoop returns (false, "") whenever the history has fewer than
\* 2*repeat_threshold records, whatever the keys and the last-progress time.
C4_InsufficientHistoryNotStuck ==
    (Queried /\ Len(action_history.records) < 2 * repeatThreshold)
        => verdict = NotStuck

\* Threshold 3, five identical actions, no progress ever: queried, not stuck.
C4_Witness ==
    /\ Queried
    /\ repeatThreshold = 3
    /\ Len(action_history.records) = 5
    /\ LongestRun(RecentKeys) = 5
    /\ progress_metrics.LastProgress = ZeroTime
    /\ verdict = NotStuck

\* C5: IsStuckInLoop returns (false, "") whenever now - last_progress is less
\* than five minutes, even for a history that is one run of identical keys;
\* hasRecentProgress is true for every elapsed time below five minutes and
\* false from exactly five minutes on and when last_progress was never set, so
\* that from five minutes on such a history is reported stuck.
C5_RecentProgressNotStuck ==
    LET last == progress_metrics.LastProgress
        oneRun == /\ Len(action_history.records) >= 2 * repeatThreshold
                  /\ LongestRun(RecentKeys) = Len(RecentKeys)
    IN /\ (last # ZeroTime /\ now - last < ProgressWindow)
            => /\ hasRecentProgress(progress_metrics, now)
               /\ Queried => verdict = NotStuck
       /\ (last = ZeroTime \/ now - last >= ProgressWindow)
            => /\ ~hasRecentProgress(progress_metrics, now)
               /\ (Queried /\ oneRun) => verdict.stuck

\* Six identical reads, queried four minutes after the last one: not stuck.
C5_Witness ==
    /\ Queried
    /\ Len(action_history.records) >= 2 * repeatThreshold
    /\ LongestRun(RecentKeys) = Len(RecentKeys)
    /\ progress_metrics.LastProgress # ZeroTime
    /\ now - progress_metrics.LastProgress = ProgressWindow - 1
    /\ verdict = NotStuck

\* C8: when several runs in the last 15 records share the maximal length
\* (at least repeat_threshold), IsStuckInLoop reports the key of the most
\* recent of those runs.
C8_MostRecentRunReported ==
    LET ends == LongestRunEnds(RecentKeys)
        latest == CHOOSE i \in ends : \A j \in ends : j <= i
    IN (Queried /\ verdict.stuck /\ Cardinality(ends) >= 2)
          => verdict.pattern = RecentKeys[latest]

----------------------------------------------------------------------------
(* SpecLimit: RecordAction on a bead that already holds Prefill records *)

EditC == NewAction(<<"edit_file">>, Data(Absent, StrVal(<<"c.go">>), Absent))

LimitInputs == {ReadA, AskB, EditC}

\* The context and the log after n calls RecordAction(ReadA) at minute 1 on a
\* new bead, n <= HistoryLimit: n keyed records, n files read.
AfterRecording(n) ==
    [history |-> [parses |-> TRUE, records |-> [i \in 1..n |-> WithKey(ReadA)]],
     metrics |-> [set |-> n > 0, FilesRead |-> n, FilesModified |-> 0,
                  TestsRun |-> 0, CommandsExecuted |-> 0,
                  LastProgress |-> IF n > 0 THEN 1 ELSE ZeroTime],
     log |-> [i \in 1..n |-> ReadA]]

InitLimit ==
    /\ KeyIdle /\ ConcIdle /\ CacheIdle /\ WorkflowIdle /\ PartsIdle
    /\ repeatThreshold = DefaultThreshold
    /\ action_history = AfterRecording(Prefill).history
    /\ progress_metrics = AfterRecording(Prefill).metrics
    /\ recorded = AfterRecording(Prefill).log
    /\ now = 1
    /\ op = "new"
    /\ verdict = NotStuck
    /\ lastAction = ReadA
    /\ prevMetrics = NoMetrics

RecordMore ==
    /\ Len(recorded) < Prefill + MaxExtra
    /\ \E action \in LimitInputs : RecordAction(action)

NextLimit == RecordMore

SpecLimit == InitLimit /\ [][NextLimit]_vars

\* The stored records with their progress keys blanked: what the callers passed.
StoredArguments ==
    [i \in 1..Len(action_history.records) |->
        [action_history.records[i] EXCEPT !.ProgressKey = NoKey]]

\* C1: after any sequence of RecordAction calls the stored history holds at
\* most 50 records, its last record is the action recorded last, and it is
\* the most recent min(n, 50) recorded actions in the order they were recorded.
C1_HistoryIsLast50 ==
    /\ Len(action_history.records) <= 50
    /\ op = "RecordAction" =>
          StoredArguments[Len(StoredArguments)] = lastAction
    /\ LET n == Len(recorded)
           kept == IF n <= 50 THEN n ELSE 50
       IN /\ Len(StoredArguments) = kept
          /\ \A i \in 1..kept : StoredArguments[i] = recorded[n - kept + i]

\* 52 actions recorded, the last two not reads: 50 are kept.
C1_Witness ==
    /\ op = "RecordAction"
    /\ Len(recorded) = 52
    /\ Len(action_history.records) = 50
    /\ recorded[51].ActionType = <<"ask_followup">>
    /\ recorded[52].ActionType = <<"edit_file">>

----------------------------------------------------------------------------
(* SpecMetrics: RecordAction for every action type the switch names *)

ActionTypes ==
    {<<"read_file">>, <<"glob">>, <<"grep">>, <<"edit_file">>, <<"write_file">>,
     <<"run_tests">>, <<"test">>, <<"bash">>, <<"execute">>, <<"ask_followup">>}

\* Actions with empty data, one for each type.
TypedInputs == {NewAction(type, Data(Absent, Absent, Absent)) : type \in ActionTypes}

RecordTyped ==
    /\ Len(recorded) < MaxTyped
    /\ \E action \in TypedInputs : RecordAction(action)

NextMetrics == RecordTyped \/ Tick

SpecMetrics == InitLoop /\ [][NextMetrics]_vars

\* The counter the claim assigns to an action type.
CounterOf(type) ==
    CASE type \in {<<"read_file">>, <<"glob">>, <<"grep">>} -> "FilesRead"
      [] type \in {<<"edit_file">>, <<"write_file">>} -> "FilesModified"
      [] type \in {<<"run_tests">>, <<"test">>} -> "TestsRun"
      [] type \in {<<"bash">>, <<"execute">>} -> "CommandsExecuted"
      [] OTHER -> "none"

Counters == {"FilesRead", "FilesModified", "TestsRun", "CommandsExecuted"}

\* C9: RecordAction increments exactly one progress counter, the one of the
\* action's class, by exactly 1 and sets last_progress to now; for a type in
\* none of the classes the four counters and last_progress are unchanged.
C9_OneCounterIncremented ==
    op = "RecordAction" =>
        LET class == CounterOf(lastAction.ActionType) IN
        /\ \A c \in Counters :
              progress_metrics[c] = prevMetrics[c] + (IF c = class THEN 1 ELSE 0)
        /\ progress_metrics.LastProgress =
              IF class = "none" THEN prevMetrics.LastProgress ELSE now

\* A grep recorded some minutes after an earlier progress: files read grows
\* by one and last_progress moves to now.
C9_Witness ==
    /\ op = "RecordAction"
    /\ lastAction.ActionType = <<"grep">>
    /\ prevMetrics.LastProgress # ZeroTime
    /\ prevMetrics.LastProgress < now
    /\ progress_metrics.FilesRead = prevMetrics.FilesRead + 1
    /\ progress_metrics.LastProgress = now

----------------------------------------------------------------------------
(* SpecKey: generateProgressKey on two arbitrary actions *)

KeyTypes == {<<"read_file">>, <<"bash">>}
KeyFilePaths == {Absent, StrVal(<<"a.go">>), StrVal(<<"b.go">>), NumVal(<<"7">>)}
KeyCommands == {Absent, StrVal(<<"go test">>), StrVal(<<"ls">>)}
KeyIndexes == {Absent, NumVal(<<"1">>)}

\* The fields a key must not depend on, varied together.
KeyOrigins ==
    {[Timestamp |-> 1, AgentID |-> <<"agent-1">>, ResultHash |-> <<>>],
     [Timestamp |-> 2, AgentID |-> <<"agent-2">>, ResultHash |-> <<"r1">>]}

KeyInputs ==
    {[Timestamp |-> o.Timestamp, AgentID |-> o.AgentID, ActionType |-> ty,
      ActionData |-> Data(c, f, x), ResultHash |-> o.ResultHash,
      ProgressKey |-> NoKey] :
        o \in KeyOrigins, ty \in KeyTypes, c \in KeyCommands,
        f \in KeyFilePaths, x \in KeyIndexes}

InitKey ==
    /\ keyA \in KeyInputs
    /\ keyB \in KeyInputs
    /\ keyOut = <<NoKey, NoKey>>
    /\ LoopStart /\ ConcIdle /\ CacheIdle /\ WorkflowIdle /\ PartsIdle

ComputeKeys ==
    /\ keyOut = <<NoKey, NoKey>>
    /\ keyOut' = <<generateProgressKey(keyA), generateProgressKey(keyB)>>
    /\ UNCHANGED <<keyA, keyB>>
    /\ UNCHANGED outsideKey

NextKey == ComputeKeys

SpecKey == InitKey /\ [][NextKey]_vars

KeysComputed == keyOut # <<NoKey, NoKey>>

\* The primary target as the specification orders it: the file path, else
\* the command, else the serialized data.
PrimaryTarget(action) ==
    IF action.ActionData.file_path.kind = "string" THEN action.ActionData.file_path.v
    ELSE IF action.ActionData.command.kind = "string" THEN action.ActionData.command.v
    ELSE FormatData(action.ActionData)

\* C6: with both file_path and command in the data the progress key is derived
\* from the type and file_path; command is used only when file_path is absent,
\* the serialized data only when both are absent.
C6_FilePathBeforeCommand ==
    KeysComputed =>
        keyOut[1] = Sha256Prefix(keyA.ActionType \o <<":">> \o PrimaryTarget(keyA))

\* C7: the progress key is a function of (type, primary target) only: equal
\* type and primary target give equal keys whatever the other fields are, and
\* a different type or primary target gives a different key.
C7_KeyOfTypeAndTarget ==
    KeysComputed =>
        (keyOut[1] = keyOut[2]
            <=> /\ keyA.ActionType = keyB.ActionType
                /\ PrimaryTarget(keyA) = PrimaryTarget(keyB))

----------------------------------------------------------------------------
(* SpecConc: RecordAction called by several goroutines on the same bead.   *)
(* The function takes no lock, so its reads and writes of bead.Context     *)
(* interleave with those of the other calls.                               *)

\* The action goroutine g records in its n-th call: {"index": n} as in the
\* concurrency test, of type read_file.
IndexedAction(n) ==
    NewAction(<<"read_file">>, Data(Absent, Absent, NumVal(<<Digits[n]>>)))

\* Lines 54-63: the call starts, keys its action and reads the history.
CallReadHistory(g) ==
    /\ ~fatal
    /\ cpc[g] = "idle"
    /\ Len(recorded) < MaxCalls
    /\ LET action == IndexedAction(Len(recorded) + 1)
           got == getActionHistory(action_history)
       IN /\ clocal' = [clocal EXCEPT ![g] =
                [action |-> WithKey(action),
                 history |-> IF got.err THEN <<>> ELSE got.history,
                 metrics |-> NoMetrics]]
          /\ recorded' = Append(recorded, action)
    /\ cpc' = [cpc EXCEPT ![g] = "store_history"]
    /\ UNCHANGED <<repeatThreshold, action_history, progress_metrics, now, op,
                   verdict, lastAction, prevMetrics, fatal>>
    /\ UNCHANGED outsideConc

\* Lines 70-82: append to the history read before, truncate, store.
CallStoreHistory(g) ==
    /\ ~fatal
    /\ cpc[g] = "store_history"
    /\ action_history' =
          [parses |-> TRUE,
           records |-> TruncateHistory(Append(clocal[g].history, clocal[g].action))]
    /\ cpc' = [cpc EXCEPT ![g] = "read_metrics"]
    /\ UNCHANGED <<repeatThreshold, progress_metrics, now, op, verdict, lastAction,
                   prevMetrics, recorded, clocal, fatal>>
    /\ UNCHANGED outsideConc

\* Lines 234-237: updateProgressMetrics reads the stored metrics.
CallReadMetrics(g) ==
    /\ ~fatal
    /\ cpc[g] = "read_metrics"
    /\ clocal' = [clocal EXCEPT ![g].metrics = progress_metrics]
    /\ cpc' = [cpc EXCEPT ![g] = "store_metrics"]
    /\ UNCHANGED <<repeatThreshold, action_history, progress_metrics, now, op,
                   verdict, lastAction, prevMetrics, recorded, fatal>>
    /\ UNCHANGED outsideConc

\* Lines 239-264: update the metrics read before, store, return.
CallStoreMetrics(g) ==
    /\ ~fatal
    /\ cpc[g] = "store_metrics"
    /\ progress_metrics' = updateProgressMetrics(clocal[g].metrics, clocal[g].action, now)
    /\ cpc' = [cpc EXCEPT ![g] = "idle"]
    /\ clocal' = [clocal EXCEPT ![g] = NoCall]
    /\ UNCHANGED <<repeatThreshold, action_history, now, op, verdict, lastAction,
                   prevMetrics, recorded, fatal>>
    /\ UNCHANGED outsideConc

\* Two goroutines at an access of the map bead.Context, one of them a write:
\* a data race, which the Go runtime may end with "concurrent map writes".
ConcurrentMapAccess ==
    /\ ~fatal
    /\ \E g, h \in Callers :
          /\ g # h
          /\ cpc[g] \in {"store_history", "store_metrics"}
          /\ cpc[h] \in {"store_history", "read_metrics", "store_metrics"}
    /\ fatal' = TRUE
    /\ UNCHANGED <<loopVars, cpc, clocal>>
    /\ UNCHANGED outsideConc

NextConc ==
    \/ \E g \in Callers : CallReadHistory(g)
    \/ \E g \in Callers : CallStoreHistory(g)
    \/ \E g \in Callers : CallReadMetrics(g)
    \/ \E g \in Callers : CallStoreMetrics(g)
    \/ ConcurrentMapAccess

SpecConc == InitLoop /\ [][NextConc]_vars

\* C3: concurrent RecordAction calls on one bead are serialized: once the k
\* calls have returned the history holds one record for each of them, none
\* lost or overwritten.
C3_NoRecordLost ==
    (~fatal /\ \A g \in Callers : cpc[g] = "idle")
        => /\ Len(action_history.records) = Len(recorded)
           /\ \A i \in 1..Len(recorded) :
                 \E j \in 1..Len(action_history.records) :
                    StoredArguments[j] = recorded[i]

----------------------------------------------------------------------------
(* Part 2: the response cache of internal/cache/redis.go.  Redis keeps a   *)
(* value until the time to live given with it has passed; a SET replaces   *)
(* the value and its time to live.  Values are written by this code only,  *)
(* so every value read deserializes.                                       *)

\* client.Get at time t: the value and whether the key exists (not redis.Nil).
RedisGet(key, t) ==
    IF redis[key].present /\ t < redis[key].expireAt
    THEN [ok |-> TRUE, entry |-> redis[key].entry]
    ELSE [ok |-> FALSE, entry |-> NoEntry]

\* client.Set(key, entry, ttl) arriving at time t: the server's new content.
RedisSet(key, entry, ttl, t) ==
    [redis EXCEPT ![key] = [present |-> TRUE, entry |-> entry, expireAt |-> t + ttl]]

Responses == {"r1", "r2"}
Providers == {"p1"}
TTLs == {0, 1}

\* Set(key, response, ttl, metadata): the entry is stamped and stored.
Set(key, response, ttl, provider, model, tokens) ==
    LET life == IF ttl = 0 THEN DefaultTTL ELSE ttl
        entry == [Key |-> key, Response |-> response, CachedAt |-> now,
                  ExpiresAt |-> now + life, Hits |-> 0, ProviderID |-> provider,
                  ModelName |-> model, TokensSaved |-> tokens]
    IN /\ sets < MaxSets
       /\ sets' = sets + 1
       /\ redis' = IF enabled THEN RedisSet(key, entry, life, now) ELSE redis
       /\ returned' = Miss
       /\ settled' = IF enabled
                     THEN [settled EXCEPT ![key] =
                               [present |-> TRUE, Response |-> response, by |-> "Set"]]
                     ELSE settled
       /\ cop' = [name |-> "Set", key |-> key, provider |-> provider,
                  model |-> model, maxAge |-> 0]
       /\ before' = redis
       /\ result' = 0
       /\ atSet' = IF enabled
                   THEN [atSet EXCEPT ![key] =
                           [gets |-> gets[key], Hits |-> stats.Hits,
                            TokensSaved |-> stats.TokensSaved, tokens |-> tokens]]
                   ELSE atSet
       /\ UNCHANGED <<removals, gets>>
       /\ UNCHANGED <<enabled, stats, gpc, glocal, now>>
       /\ UNCHANGED outsideCache

\* Get, lines 49-85: the lookup, the statistics, the entry's hit counter and
\* the time to live of the write-back, computed from the entry's ExpiresAt.
GetLookup(c, key) ==
    /\ gpc[c] = "idle"
    /\ stats.Hits + stats.Misses < MaxGets
    /\ LET got == RedisGet(key, now)
           entry == [got.entry EXCEPT !.Hits = @ + 1]
           ttl == entry.ExpiresAt - now
       IN IF ~enabled
          THEN /\ returned' = Miss
               /\ UNCHANGED <<stats, gpc, glocal, gets>>
          ELSE IF ~got.ok
          THEN /\ stats' = [stats EXCEPT !.Misses = @ + 1]
               /\ returned' = Miss
               /\ gets' = [gets EXCEPT ![key] = @ + 1]
               /\ UNCHANGED <<gpc, glocal>>
          ELSE /\ stats' = [stats EXCEPT !.Hits = @ + 1,
                                         !.TokensSaved = @ + got.entry.TokensSaved]
               /\ IF ttl > 0
                  THEN /\ gpc' = [gpc EXCEPT ![c] = "writeback"]
                       /\ glocal' = [glocal EXCEPT ![c] =
                             [key |-> key, entry |-> entry, ttl |-> ttl, readAt |-> now,
                              loaded |-> 0]]
                       /\ returned' = Miss
                       /\ UNCHANGED gets
                  ELSE /\ returned' = [found |-> TRUE, entry |-> entry, readAt |-> now]
                       /\ gets' = [gets EXCEPT ![key] = @ + 1]
                       /\ UNCHANGED <<gpc, glocal>>
    /\ UNCHANGED <<enabled, redis, now, sets>>
    /\ cop' = [NoOp EXCEPT !.name = "Get", !.key = key]
    /\ before' = redis
    /\ result' = 0
    /\ UNCHANGED <<settled, removals, atSet>>
    /\ UNCHANGED outsideCache

\* Get, lines 87-91: the write-back reaches Redis and Get returns the entry.
GetWriteBack(c) ==
    /\ gpc[c] = "writeback"
    /\ redis' = RedisSet(glocal[c].key, glocal[c].entry, glocal[c].ttl, now)
    /\ returned' = [found |-> TRUE, entry |-> glocal[c].entry,
                    readAt |-> glocal[c].readAt]
    /\ gpc' = [gpc EXCEPT ![c] = "idle"]
    /\ glocal' = [glocal EXCEPT ![c] = NoGet]
    /\ gets' = [gets EXCEPT ![glocal[c].key] = @ + 1]
    /\ UNCHANGED <<enabled, stats, now, sets>>
    /\ NoWrite
    /\ UNCHANGED outsideCache

\* A minute passes.
Elapse ==
    /\ now < MaxCacheTime
    /\ now' = now + 1
    /\ returned' = Miss
    /\ UNCHANGED <<enabled, redis, stats, gpc, glocal, sets, gets>>
    /\ NoWrite
    /\ UNCHANGED outsideCache

InitCache ==
    /\ LoopStart /\ KeyIdle /\ ConcIdle /\ WorkflowIdle /\ PartsIdle
    /\ enabled \in BOOLEAN
    /\ redis = [k \in CacheKeys |-> NoValue]
    /\ stats = [Hits |-> 0, Misses |-> 0, TokensSaved |-> 0]
    /\ gpc = [c \in Clients |-> "idle"]
    /\ glocal = [c \in Clients |-> NoGet]
    /\ returned = Miss
    /\ sets = 0
    /\ GhostIdle

SetStep ==
    \E key \in CacheKeys, response \in Responses, ttl \in TTLs, provider \in Providers :
        Set(key, response, ttl, provider, "m1", 100)

NextCache ==
    \/ SetStep
    \/ \E c \in Clients, key \in CacheKeys : GetLookup(c, key)
    \/ \E c \in Clients : GetWriteBack(c)
    \/ Elapse

SpecCache == InitCache /\ [][NextCache]_vars

\* C10: Get never returns an entry whose expires_at is earlier than the time
\* at which Get looked it up, in every interleaving of Set, Get (with its
\* write-back) and the passage of time.
C10_NoExpiredEntryReturned ==
    returned.found => ~(returned.entry.ExpiresAt < returned.readAt)

----------------------------------------------------------------------------
(* The cache with its removals: Delete and the Invalidate* family, next to *)
(* Set and Get, on two keys.  Each removal is one step: its SCAN, GETs and *)
(* DELs are taken together.                                                *)

OpsKeys == {"k1", "k2"}
OpsProviders == {"p1", "p2"}
OpsModels == {"m1", "m2"}
MaxAges == {0, 1}

\* SCAN "cache:*" at time t: the keys that have not expired.
Scan(t) == {k \in DOMAIN redis : RedisGet(k, t).ok}

\* client.Del of each of the keys.
RedisDel(keys) == [k \in DOMAIN redis |-> IF k \in keys THEN NoValue ELSE redis[k]]

\* A removal of the keys, recorded as the operation o returning n.
Remove(keys, o, n) ==
    /\ removals < MaxRemovals
    /\ removals' = removals + 1
    /\ redis' = RedisDel(keys)
    /\ settled' = [k \in DOMAIN redis |->
                     IF k \in keys
                     THEN [present |-> FALSE, Response |-> "", by |-> o.name]
                     ELSE settled[k]]
    /\ cop' = o
    /\ before' = redis
    /\ result' = n
    /\ returned' = Miss
    /\ UNCHANGED <<enabled, stats, gpc, glocal, now, sets, gets, atSet>>
    /\ UNCHANGED outsideCache

\* Delete(key)
Delete(key) ==
    Remove(IF enabled THEN {key} ELSE {},
           [NoOp EXCEPT !.name = "Delete", !.key = key], 0)

\* The switch of invalidateByMetadata.
shouldInvalidate(field, value, entry) ==
    CASE field = "provider_id" -> entry.ProviderID = value
      [] field = "model_name" -> entry.ModelName = value
      [] OTHER -> FALSE

\* invalidateByMetadata(field, value): the keys it deletes.
invalidateByMetadata(field, value) ==
    {k \in Scan(now) : shouldInvalidate(field, value, redis[k].entry)}

InvalidateByProvider(providerID) ==
    LET keys == IF enabled THEN invalidateByMetadata("provider_id", providerID) ELSE {}
    IN Remove(keys, [NoOp EXCEPT !.name = "InvalidateByProvider",
                                 !.provider = providerID], Cardinality(keys))

InvalidateByModel(modelName) ==
    LET keys == IF enabled THEN invalidateByMetadata("model_name", modelName) ELSE {}
    IN Remove(keys, [NoOp EXCEPT !.name = "InvalidateByModel",
                                 !.model = modelName], Cardinality(keys))

\* InvalidateByAge(maxAge): entry.CachedAt.Before(now - maxAge)
InvalidateByAge(maxAge) ==
    LET threshold == now - maxAge
        keys == IF enabled
                THEN {k \in Scan(now) : redis[k].entry.CachedAt < threshold}
                ELSE {}
    IN Remove(keys, [NoOp EXCEPT !.name = "InvalidateByAge", !.maxAge = maxAge],
              Cardinality(keys))

InitCacheOps ==
    /\ LoopStart /\ KeyIdle /\ ConcIdle /\ WorkflowIdle /\ PartsIdle
    /\ enabled = TRUE
    /\ redis = [k \in OpsKeys |-> NoValue]
    /\ stats = [Hits |-> 0, Misses |-> 0, TokensSaved |-> 0]
    /\ gpc = [c \in Clients |-> "idle"]
    /\ glocal = [c \in Clients |-> NoGet]
    /\ returned = Miss
    /\ sets = 0
    /\ GhostIdle

\* The model each provider serves.
ModelOf == [p \in OpsProviders |-> IF p = "p1" THEN "m1" ELSE "m2"]

SetOps ==
    \E key \in OpsKeys, provider \in OpsProviders :
        Set(key, IF sets = 0 THEN "r1" ELSE "r2", 0, provider, ModelOf[provider], 100)

NextCacheOps ==
    \/ SetOps
    \/ \E key \in OpsKeys : GetLookup("c1", key)
    \/ GetWriteBack("c1")
    \/ \E key \in OpsKeys : Delete(key)
    \/ \E p \in OpsProviders : InvalidateByProvider(p)
    \/ \E m \in OpsModels : InvalidateByModel(m)
    \/ \E a \in MaxAges : InvalidateByAge(a)
    \/ Elapse

SpecCacheOps == InitCacheOps /\ [][NextCacheOps]_vars

\* Redis shows a key.
Live(store, k) == store[k].present /\ now < store[k].expireAt

\* C11: a completed Set, Delete or Invalidate* on a key is never undone by a
\* Get that started earlier: whenever Redis shows a key, the last completed
\* write to that key was a Set, and Redis shows the response of that Set.
C11_WriteNotUndone ==
    \A k \in DOMAIN redis :
        Live(redis, k) => /\ settled[k].present
                          /\ redis[k].entry.Response = settled[k].Response

Invalidations == {"InvalidateByProvider", "InvalidateByModel", "InvalidateByAge"}

\* The criterion of the invalidation o, applied to an entry.
Matches(o, entry) ==
    CASE o.name = "InvalidateByProvider" -> entry.ProviderID = o.provider
      [] o.name = "InvalidateByModel" -> entry.ModelName = o.model
      [] o.name = "InvalidateByAge" -> entry.CachedAt < now - o.maxAge
      [] OTHER -> FALSE

\* The entries the last invalidation had to remove.
Matching == {k \in DOMAIN before : Live(before, k) /\ Matches(cop, before[k].entry)}

\* The first half of C13: an invalidation removes the matching entries,
\* returns their number and leaves the other entries as they were.
C13_FrameOnly ==
    cop.name \in Invalidations =>
        /\ result = Cardinality(Matching)
        /\ \A k \in DOMAIN redis :
              IF k \in Matching THEN ~Live(redis, k) ELSE redis[k] = before[k]

\* C13: InvalidateByProvider, InvalidateByModel and InvalidateByAge remove
\* exactly the entries that match their criterion, return how many they
\* removed and leave every other entry unchanged; and a Get of a key that an
\* invalidation removed, with no Set of that key since, is a miss.
C13_InvalidateRemovesMatching ==
    /\ C13_FrameOnly
    /\ (cop.name = "Get" /\ settled[cop.key].by \in Invalidations)
          => ~Live(redis, cop.key)

\* C14: Set does not overwrite an entry that has not expired (the code's Set
\* has no way to request a refresh): after a Set on a key that Redis showed,
\* the stored entry is the one that was there before.
C14_SetRefusesOverwrite ==
    (cop.name = "Set" /\ Live(before, cop.key)) => redis[cop.key] = before[cop.key]

----------------------------------------------------------------------------
(* The statistics of the cache under concurrent Gets.  rc.stats.Hits++ and *)
(* rc.stats.Misses++ are plain increments of a shared struct: a load and a *)
(* store, with the other callers' steps in between.                        *)

RECURSIVE SumOver(_, _)
SumOver(f, keys) ==
    IF keys = {} THEN 0
    ELSE LET k == CHOOSE x \in keys : TRUE IN f[k] + SumOver(f, keys \ {k})

\* The Get calls on the enabled cache that have returned.
Returned == SumOver(gets, DOMAIN gets)

\* Get, lines 49-77: the lookup, and the load of the counter to increment.
GetLoadCounter(c, key) ==
    /\ enabled
    /\ gpc[c] = "idle"
    /\ Returned + Cardinality({d \in Clients : gpc[d] # "idle"}) < MaxGets
    /\ LET got == RedisGet(key, now)
       IN /\ gpc' = [gpc EXCEPT ![c] = IF got.ok THEN "hit" ELSE "miss"]
          /\ glocal' = [glocal EXCEPT ![c] =
                [key |-> key, entry |-> got.entry, ttl |-> 0, readAt |-> now,
                 loaded |-> IF got.ok THEN stats.Hits ELSE stats.Misses]]
    /\ returned' = Miss
    /\ cop' = [NoOp EXCEPT !.name = "Get", !.key = key]
    /\ before' = redis
    /\ result' = 0
    /\ UNCHANGED <<enabled, redis, stats, now, sets, settled, removals, gets, atSet>>
    /\ UNCHANGED outsideCache

\* Get, lines 58-59 and 77-91: the store of the incremented counter, and the
\* rest of the call.
GetStoreCounter(c) ==
    /\ gpc[c] \in {"hit", "miss"}
    /\ LET entry == [glocal[c].entry EXCEPT !.Hits = @ + 1]
           ttl == entry.ExpiresAt - now
       IN IF gpc[c] = "miss"
          THEN /\ stats' = [stats EXCEPT !.Misses = glocal[c].loaded + 1]
               /\ returned' = Miss
               /\ UNCHANGED redis
          ELSE /\ stats' = [stats EXCEPT !.Hits = glocal[c].loaded + 1,
                                         !.TokensSaved = @ + entry.TokensSaved]
               /\ redis' = IF ttl > 0
                           THEN RedisSet(glocal[c].key, entry, ttl, now)
                           ELSE redis
               /\ returned' = [found |-> TRUE, entry |-> entry,
                               readAt |-> glocal[c].readAt]
    /\ gpc' = [gpc EXCEPT ![c] = "idle"]
    /\ glocal' = [glocal EXCEPT ![c] = NoGet]
    /\ gets' = [gets EXCEPT ![glocal[c].key] = @ + 1]
    /\ UNCHANGED <<enabled, now, sets>>
    /\ NoWrite
    /\ UNCHANGED outsideCache

NextCacheStats ==
    \/ SetStep
    \/ \E c \in Clients, key \in CacheKeys : GetLoadCounter(c, key)
    \/ \E c \in Clients : GetStoreCounter(c)
    \/ Elapse

SpecCacheStats == InitLoop /\ [][NextCacheStats]_vars

\* C12: on an enabled cache, whenever no Get is under way, hits + misses is
\* the number of Get calls that have returned, also when Gets overlap: no
\* increment of a counter is lost.
C12_NoIncrementLost ==
    (enabled /\ \A c \in Clients : gpc[c] = "idle")
        => stats.Hits + stats.Misses = Returned

----------------------------------------------------------------------------
(* The cache with one caller: each Get runs from its lookup to its return  *)
(* with nothing in between.  Only k1 is ever set.                          *)

SeqKeys == {"k1", "k2"}
SeqTTLs == {0, 5}
SeqTokens == {100, 7}

\* Lines 80-81 without the increment.
HitEntryStale(entry) == entry

\* Lines 80-81: entry.Hits++
HitEntry(entry) == [entry EXCEPT !.Hits = @ + 1]

\* Get(key), the whole call.
Get(key) ==
    /\ Returned < MaxGets
    /\ LET got == RedisGet(key, now)
           entry == HitEntry(got.entry)
           ttl == entry.ExpiresAt - now
       IN IF ~enabled
          THEN /\ returned' = Miss
               /\ UNCHANGED <<stats, redis, gets>>
          ELSE IF ~got.ok
          THEN /\ stats' = [stats EXCEPT !.Misses = @ + 1]
               /\ returned' = Miss
               /\ gets' = [gets EXCEPT ![key] = @ + 1]
               /\ UNCHANGED redis
          ELSE /\ stats' = [stats EXCEPT !.Hits = @ + 1,
                                         !.TokensSaved = @ + got.entry.TokensSaved]
               /\ redis' = IF ttl > 0 THEN RedisSet(key, entry, ttl, now) ELSE redis
               /\ returned' = [found |-> TRUE, entry |-> entry, readAt |-> now]
               /\ gets' = [gets EXCEPT ![key] = @ + 1]
    /\ cop' = [NoOp EXCEPT !.name = "Get", !.key = key]
    /\ before' = redis
    /\ result' = 0
    /\ UNCHANGED <<enabled, gpc, glocal, now, sets, settled, removals, atSet>>
    /\ UNCHANGED outsideCache

\* A minute passes, up to the end of the run.
ElapseSeq ==
    /\ now < MaxSeqTime
    /\ now' = now + 1
    /\ returned' = Miss
    /\ UNCHANGED <<enabled, redis, stats, gpc, glocal, sets, gets>>
    /\ NoWrite
    /\ UNCHANGED outsideCache

InitCacheSeq ==
    /\ LoopStart /\ KeyIdle /\ ConcIdle /\ WorkflowIdle /\ PartsIdle
    /\ enabled \in BOOLEAN
    /\ redis = [k \in SeqKeys |-> NoValue]
    /\ stats = [Hits |-> 0, Misses |-> 0, TokensSaved |-> 0]
    /\ gpc = [c \in Clients |-> "idle"]
    /\ glocal = [c \in Clients |-> NoGet]
    /\ returned = Miss
    /\ sets = 0
    /\ GhostIdle

SetSeq ==
    \E response \in Responses, ttl \in SeqTTLs, tokens \in SeqTokens :
        Set("k1", response, ttl, "p1", "m1", tokens)

NextCacheSeq ==
    \/ SetSeq
    \/ \E key \in SeqKeys : Get(key)
    \/ ElapseSeq

SpecCacheSeq == InitCacheSeq /\ [][NextCacheSeq]_vars

\* The Get calls of key k that have returned since the last Set of k.
GetsSince(k) == gets[k] - atSet[k].gets

\* The last step was a Get that hit.
GetHit == cop.name = "Get" /\ returned.found

\* C15: a Get that hits an entry with less than 25% of its original time to
\* live remaining extends the entry's expiry; a hit with 25% or more
\* remaining leaves expires_at as it was.
C15_RefreshBelowQuarter ==
    GetHit =>
        LET old == before[cop.key].entry
            remaining == old.ExpiresAt - now
            original == old.ExpiresAt - old.CachedAt
        IN IF 4 * remaining < original
           THEN redis[cop.key].entry.ExpiresAt > old.ExpiresAt
           ELSE redis[cop.key].entry.ExpiresAt = old.ExpiresAt

\* The second half of C15: a hit with 25% or more remaining leaves
\* expires_at as it was.
C15_UnchangedOnly ==
    GetHit =>
        LET old == before[cop.key].entry
        IN 4 * (old.ExpiresAt - now) >= old.ExpiresAt - old.CachedAt
              => redis[cop.key].entry.ExpiresAt = old.ExpiresAt

\* While the entry Set stored is there: its hit counter, the hits statistic
\* and the tokens-saved statistic have grown with the Gets since that Set.
HitsCounted ==
    \A k \in DOMAIN redis :
        (enabled /\ settled[k].by = "Set" /\ Live(redis, k)) =>
            /\ redis[k].entry.Hits = GetsSince(k)
            /\ redis[k].entry.Response = settled[k].Response
            /\ stats.Hits - atSet[k].Hits = GetsSince(k)
            /\ stats.TokensSaved - atSet[k].TokensSaved = GetsSince(k) * atSet[k].tokens

\* A Get that hits returns the response Set stored, counted.
HitReturnsStored ==
    GetHit => /\ returned.entry.Response = settled[cop.key].Response
              /\ returned.entry.Hits = GetsSince(cop.key)

\* A Get of a key that is not there returns (nil, false) and only misses grow.
AbsentIsMiss ==
    (enabled /\ cop'.name = "Get" /\ ~Live(redis, cop'.key)) =>
        /\ ~returned'.found
        /\ stats' = [stats EXCEPT !.Misses = @ + 1]
        /\ redis' = redis

----------------------------------------------------------------------------
(* Part 3: the workflow engine.  Its code is not among the sources; it is  *)
(* modelled from the specification's section 4.2 and the workflow          *)
(* definition of its section 6.  A failure that no edge handles uses up    *)
(* one attempt; the node escalates when its attempts are used up, as in    *)
(* the retry scenario of the specification (max_attempts = 3: the third    *)
(* failure escalates, with attempts 3).  The escalation creates an         *)
(* approval bead and pauses the node.  An execution that has reached an    *)
(* end node is archived: Advance leaves it alone.                          *)

\* A node of a definition.
Node(type, role, max_attempts) ==
    [type |-> type, role |-> role, max_attempts |-> max_attempts]

\* An edge; pred is the context flag the edge requires, "" for none.
Edge(from, to, outcome, pred) ==
    [from |-> from, to |-> to, outcome |-> outcome, pred |-> pred]

\* The auto-bug-workflow definition.
AutoBugWorkflow ==
    [id |-> "auto-bug-workflow",
     nodes |-> [start |-> Node("start", "", DefaultMaxAttempts),
                triage |-> Node("task", "qa-engineer", 1),
                investigate |-> Node("task", "backend-engineer", 5),
                approve |-> Node("approval", "ceo", DefaultMaxAttempts),
                apply |-> Node("task", "engineering-manager", 3),
                verify |-> Node("task", "qa-engineer", 2),
                end |-> Node("end", "", DefaultMaxAttempts)],
     edges |-> {Edge("start", "triage", "success", ""),
                Edge("triage", "investigate", "success", ""),
                Edge("investigate", "approve", "success", ""),
                Edge("approve", "apply", "success", ""),
                Edge("approve", "end", "reject", ""),
                Edge("apply", "verify", "success", ""),
                Edge("verify", "end", "success", ""),
                Edge("verify", "apply", "failure", "")}]

\* A definition with a decision node whose two success edges carry
\* predicates over the bead's context.
BranchingWorkflow ==
    [id |-> "branching-workflow",
     nodes |-> [start |-> Node("start", "", DefaultMaxAttempts),
                decide |-> Node("decision", "project-manager", DefaultMaxAttempts),
                patch |-> Node("task", "backend-engineer", 2),
                redesign |-> Node("task", "web-designer", 2),
                end |-> Node("end", "", DefaultMaxAttempts)],
     edges |-> {Edge("start", "decide", "success", ""),
                Edge("decide", "patch", "success", "small"),
                Edge("decide", "redesign", "success", "visual"),
                Edge("patch", "end", "success", ""),
                Edge("redesign", "end", "success", ""),
                Edge("redesign", "patch", "failure", "")}]

Definitions == {AutoBugWorkflow, BranchingWorkflow}
Outcomes == {"success", "failure", "reject"}
Contexts == {{}, {"small"}, {"small", "visual"}}

\* The start node of a definition.
StartNode(def) == CHOOSE n \in DOMAIN def.nodes : def.nodes[n].type = "start"

\* The outgoing edges of the node whose predicate holds, whatever their label.
EdgesIgnoringOutcome(def, node, outcome, context) ==
    {e \in def.edges : e.from = node /\ (e.pred = "" \/ e.pred \in context)}

\* The outgoing edges of the node that carry the outcome and whose predicate
\* holds in the context.
MatchingEdges(def, node, outcome, context) ==
    {e \in def.edges : /\ e.from = node
                       /\ e.outcome = outcome
                       /\ (e.pred = "" \/ e.pred \in context)}

\* Of several matching edges, one is followed.
FollowAny(matches) == IF matches = {} THEN {} ELSE {CHOOSE e \in matches : TRUE}

\* The edge Advance follows: the matching edge if there is exactly one.
Follow(matches) == IF Cardinality(matches) = 1 THEN matches ELSE {}

\* The history that loses what it held.
ReplaceTransition(history, entry) == <<entry>>

\* The transition history with one more entry.
AppendTransition(history, entry) == Append(history, entry)

\* The attempts of the node are used up one failure late.
AttemptsExceeded(attempts, max_attempts) == attempts > max_attempts

\* The attempts of the node are used up.
AttemptsUsedUp(attempts, max_attempts) == attempts >= max_attempts

\* The execution reaches the end without the bead being closed.
StatusOpen(def, node) == "open"

\* The status of the bead once the execution is at the node.
StatusAt(def, node) == IF def.nodes[node].type = "end" THEN "closed" ELSE "open"

\* The execution has reached an end node.
Terminal == /\ execution.current_node \in DOMAIN definition.nodes
            /\ definition.nodes[execution.current_node].type = "end"

\* Admission: the execution is pinned to the start node, attempt counter 0.
Admit(def) ==
    /\ definition.id = ""
    /\ definition' = def
    /\ execution' = [NoExecution EXCEPT !.current_node = StartNode(def)]
    /\ beadStatus' = "open"
    /\ wfLast' = [NoWorkflowOp EXCEPT !.op = "Admit"]
    /\ UNCHANGED <<approvals, calls>>
    /\ UNCHANGED outsideWorkflow

\* Advance(outcome, context) at time clock: the execution it leaves.
Advanced(def, exec, outcome, context, clock) ==
    LET node == def.nodes[exec.current_node]
        matches == MatchingEdges(def, exec.current_node, outcome, context)
    IN IF node.type = "end" THEN exec
       ELSE IF Follow(matches) # {}
       THEN LET e == CHOOSE x \in Follow(matches) : TRUE
            IN [current_node |-> e.to,
                attempts |-> 0,
                transitions |-> AppendTransition(exec.transitions,
                                   [from |-> e.from, to |-> e.to,
                                    outcome |-> outcome, timestamp |-> clock]),
                paused |-> FALSE]
       ELSE IF matches = {} /\ outcome = "failure"
       THEN [exec EXCEPT !.attempts = @ + 1,
                         !.paused = @ \/ AttemptsUsedUp(exec.attempts + 1,
                                                        node.max_attempts)]
       ELSE exec

\* The approval bead of an escalation at the execution's node.
ApprovalBead(exec) ==
    [escalation_reason |-> "max_attempts_exceeded", attempts |-> exec.attempts,
     last_outcome |-> "failure", node |-> exec.current_node,
     visit |-> Len(exec.transitions)]

\* The engine handles an outcome, reported by Advance or made up by a timeout.
Handle(opname, outcome, context) ==
    /\ definition.id # ""
    /\ Len(calls) < MaxAdvance
    /\ LET next == Advanced(definition, execution, outcome, context, Len(calls) + 1)
           escalates == /\ next.attempts > execution.attempts
                        /\ AttemptsUsedUp(next.attempts,
                              definition.nodes[next.current_node].max_attempts)
       IN /\ execution' = next
          /\ approvals' = IF escalates
                          THEN Append(approvals, ApprovalBead(next))
                          ELSE approvals
          /\ beadStatus' = StatusAt(definition, next.current_node)
    /\ calls' = Append(calls, [outcome |-> outcome,
                               visit |-> Len(execution.transitions)])
    /\ wfLast' = [op |-> opname, outcome |-> outcome, context |-> context,
                  prev |-> execution]
    /\ UNCHANGED definition
    /\ UNCHANGED outsideWorkflow

Advance(outcome, context) == Handle("Advance", outcome, context)

\* The deadline of the attempt passes: outcome failure, reason timeout.
Timeout(context) == Handle("Timeout", "failure", context)

NextWorkflow ==
    \/ \E def \in Definitions : Admit(def)
    \/ \E outcome \in Outcomes, context \in Contexts : Advance(outcome, context)
    \/ \E context \in Contexts : Timeout(context)

SpecWorkflow == InitLoop /\ [][NextWorkflow]_vars

\* a is a prefix of b.
IsPrefix(a, b) == Len(a) <= Len(b) /\ SubSeq(b, 1, Len(a)) = a

\* The current node is a node of the definition.
CurrentNodeDefined ==
    definition.id # "" => execution.current_node \in DOMAIN definition.nodes

\* A step only appends to the history, and changes nothing once at the end.
HistoryAppendOnly ==
    /\ IsPrefix(execution.transitions, execution'.transitions)
    /\ Terminal => /\ execution'.current_node = execution.current_node
                   /\ execution'.transitions = execution.transitions

\* C17: in every execution, after any sequence of Advance calls, timeouts and
\* escalations, the current node is a node of the definition, the transition
\* history only grows by appending, and once an end node is reached no call
\* changes the current node or the history.
C17_ExecutionInvariants ==
    /\ []CurrentNodeDefined
    /\ [][HistoryAppendOnly]_vars

\* A call arrives after the end node was reached, with three transitions or
\* more in the history.
C17_Witness ==
    /\ Terminal
    /\ wfLast.op \in {"Advance", "Timeout"}
    /\ wfLast.prev.current_node = execution.current_node
    /\ Len(execution.transitions) >= 3

\* The failures handled at the current node since it was entered.
FailuresHere ==
    Cardinality({i \in 1..Len(calls) :
                    /\ calls[i].outcome = "failure"
                    /\ calls[i].visit = Len(execution.transitions)})

\* The approval beads created at the current node since it was entered.
EscalationsHere ==
    {i \in 1..Len(approvals) :
        /\ approvals[i].node = execution.current_node
        /\ approvals[i].visit = Len(execution.transitions)}

\* The node has no outgoing failure edge.
NoFailureEdge(def, node) ==
    ~\E e \in def.edges : e.from = node /\ e.outcome = "failure"

LastMatches ==
    MatchingEdges(definition, wfLast.prev.current_node, wfLast.outcome, wfLast.context)

\* The last operation was an Advance on an execution that had not ended.
Advancing ==
    /\ wfLast.op = "Advance"
    /\ definition.nodes[wfLast.prev.current_node].type # "end"

\* C19: Advance moves the execution only along an edge that leaves the
\* current node, carries the outcome and whose predicate holds; with exactly
\* one such edge the current node becomes its target, the attempt counter
\* is 0 and one transition entry is appended; with more than one the call is
\* refused: current node, attempt counter and history are unchanged.
C19_AdvanceFollowsEdge ==
    Advancing =>
        /\ execution.transitions # wfLast.prev.transitions
              => \E e \in LastMatches : execution.current_node = e.to
        /\ execution.transitions = wfLast.prev.transitions
              => execution.current_node = wfLast.prev.current_node
        /\ Cardinality(LastMatches) = 1
              => \E e \in LastMatches :
                    /\ execution.current_node = e.to
                    /\ execution.attempts = 0
                    /\ Len(execution.transitions) = Len(wfLast.prev.transitions) + 1
                    /\ IsPrefix(wfLast.prev.transitions, execution.transitions)
                    /\ LET last == execution.transitions[Len(execution.transitions)]
                       IN /\ last.from = e.from
                          /\ last.to = e.to
                          /\ last.outcome = wfLast.outcome
        /\ Cardinality(LastMatches) > 1
              => /\ execution.current_node = wfLast.prev.current_node
                 /\ execution.attempts = wfLast.prev.attempts
                 /\ execution.transitions = wfLast.prev.transitions

\* An Advance at the decision node that two edges match.
C19_Witness ==
    /\ Advancing
    /\ Cardinality(LastMatches) = 2
    /\ execution.current_node = "decide"
    /\ Len(execution.transitions) = 1

\* An Advance that one edge matches leaves a node where attempts had failed.
C19_WitnessMove ==
    /\ Advancing
    /\ Cardinality(LastMatches) = 1
    /\ wfLast.prev.attempts > 0
    /\ execution.attempts = 0

\* Every Advance so far reported success, and no timeout happened.
OnlySuccess ==
    /\ \A i \in 1..Len(calls) : calls[i].outcome = "success"
    /\ wfLast.op \in {"Admit", "Advance"}

\* The nodes of a history, in order: where it started and where each entry led.
Path(history) ==
    IF history = <<>> THEN <<>>
    ELSE <<history[1].from>> \o [i \in 1..Len(history) |-> history[i].to]

\* C20: a bead admitted to the auto-bug-workflow and advanced with success at
\* start, triage, investigate, approve, apply and verify is at the end node,
\* its history has exactly these 6 transitions in this order, and its status
\* is closed.
C20_SuccessPathCloses ==
    (definition.id = "auto-bug-workflow" /\ OnlySuccess /\ Len(calls) = 6)
    => /\ execution.current_node = "end"
       /\ Len(execution.transitions) = 6
       /\ Path(execution.transitions) =
             <<"start", "triage", "investigate", "approve", "apply", "verify", "end">>
       /\ \A i \in 1..6 : execution.transitions[i].outcome = "success"
       /\ beadStatus = "closed"

\* The sixth success on the auto-bug-workflow.
C20_Witness ==
    /\ definition.id = "auto-bug-workflow"
    /\ OnlySuccess
    /\ Len(calls) = 6
    /\ wfLast.prev.current_node = "verify"

----------------------------------------------------------------------------
(* The loader of workflow definitions, modelled from the validation rules  *)
(* of the specification's section 4.2.  A definition arrives as persisted: *)
(* an array of nodes and its edges.  The loader scans the array, colours   *)
(* the nodes in a depth-first search and reports every rule that fails.    *)

KnownRoles == {"engineering-manager", "qa-engineer", "web-designer",
               "backend-engineer", "project-manager", "ceo"}
NodeTypes == {"task", "approval", "decision", "merge", "start", "end"}

\* The identifiers the node array defines.
NodeIds(def) == {def.nodes[i].id : i \in DOMAIN def.nodes}

\* The defined nodes an edge leads to from node n.
Successors(def, n) == {e.to : e \in {x \in def.edges : x.from = n}} \cap NodeIds(def)

\* No edge is ever taken for a back edge.
NoBackEdge(colour) == FALSE

\* The search meets a node it has entered and not left: a back edge.
BackEdge(colour) == colour = "gray"

RECURSIVE Visit(_, _, _)
RECURSIVE VisitEach(_, _, _)

\* The depth-first search enters node n: gray on entry, black on exit.
Visit(def, n, st) ==
    LET entered == [st EXCEPT !.colour[n] = "gray"]
        searched == VisitEach(def, Successors(def, n), entered)
    IN [searched EXCEPT !.colour[n] = "black"]

\* The search follows the edges to the nodes of todo, one after the other.
VisitEach(def, todo, st) ==
    IF todo = {} THEN st
    ELSE LET m == CHOOSE x \in todo : TRUE
             next == IF BackEdge(st.colour[m]) THEN [st EXCEPT !.cycle = TRUE]
                     ELSE IF st.colour[m] = "white" THEN Visit(def, m, st)
                     ELSE st
         IN VisitEach(def, todo \ {m}, next)

\* Every node white, no cycle seen.
Unsearched(def) == [colour |-> [n \in NodeIds(def) |-> "white"], cycle |-> FALSE]

RECURSIVE SearchFrom(_, _, _)
\* The search started at each white node of the array, from index i on.
SearchFrom(def, i, st) ==
    IF i > Len(def.nodes) THEN st
    ELSE LET n == def.nodes[i].id
         IN SearchFrom(def, i + 1,
                       IF st.colour[n] = "white" THEN Visit(def, n, st) ELSE st)

\* The indexes of the start nodes in the array.
StartIndexes(def) == {i \in DOMAIN def.nodes : def.nodes[i].type = "start"}

\* The nodes the search from the start node does not reach.
NotReached(def) ==
    IF StartIndexes(def) = {} THEN {}
    ELSE LET first == def.nodes[CHOOSE i \in StartIndexes(def) :
                                   \A j \in StartIndexes(def) : i <= j].id
             st == Visit(def, first, Unsearched(def))
         IN {n \in NodeIds(def) : st.colour[n] # "black"}

\* The rules the definition fails.
Validate(def) ==
    {r \in {"cycle", "start", "end", "unreachable", "role", "edge", "type"} :
        CASE r = "cycle" -> SearchFrom(def, 1, Unsearched(def)).cycle
          [] r = "start" -> Cardinality(StartIndexes(def)) # 1
          [] r = "end" -> ~\E i \in DOMAIN def.nodes : def.nodes[i].type = "end"
          [] r = "unreachable" -> NotReached(def) # {}
          [] r = "role" -> \E i \in DOMAIN def.nodes :
                              /\ def.nodes[i].role # ""
                              /\ def.nodes[i].role \notin KnownRoles
          [] r = "edge" -> \E e \in def.edges :
                              e.from \notin NodeIds(def) \/ e.to \notin NodeIds(def)
          [] r = "type" -> \E i \in DOMAIN def.nodes :
                              def.nodes[i].type \notin NodeTypes}

\* The definitions handed to the loader: three nodes, in any order of the
\* array, and up to MaxEdges edges among them and an undefined node.
CandidateNodes ==
    {<<[id |-> "n1", type |-> t1, role |-> ""],
       [id |-> "n2", type |-> n2.type, role |-> n2.role],
       [id |-> "n3", type |-> "end", role |-> ""]>> :
        t1 \in {"start", "task"},
        n2 \in {[type |-> "task", role |-> "qa-engineer"], [type |-> "task", role |-> "intern"],
                [type |-> "gate", role |-> "qa-engineer"], [type |-> "start", role |-> ""]}}

CandidateEnds == {"n1", "n2", "n3", "ghost"}

CandidateEdges ==
    {es \in SUBSET {[from |-> f, to |-> t] : f \in {"n1", "n2", "n3"}, t \in CandidateEnds} :
        Cardinality(es) <= MaxEdges}

\* The arrays that hold the same nodes in another order.
Reordered(nodes) ==
    {[i \in 1..Len(nodes) |-> nodes[f[i]]] :
        f \in {g \in [1..Len(nodes) -> 1..Len(nodes)] :
                  \A i, j \in 1..Len(nodes) : i # j => g[i] # g[j]}}

\* A definition arrives.
Submit(nodes, edges) ==
    /\ candidate = NoCandidate
    /\ candidate' = [id |-> "candidate", nodes |-> nodes, edges |-> edges]
    /\ UNCHANGED loadResult
    /\ UNCHANGED outsideValidation

\* LoadWorkflowDefinition: the definition is validated with its node array in
\* the given order.
Load(order) ==
    /\ candidate # NoCandidate
    /\ loadResult' = [done |-> TRUE, order |-> order,
                      errors |-> Validate([candidate EXCEPT !.nodes = order])]
    /\ UNCHANGED candidate
    /\ UNCHANGED outsideValidation

InitValidation == InitLoop

NextValidation ==
    \/ candidate = NoCandidate
          /\ \E nodes \in CandidateNodes, edges \in CandidateEdges : Submit(nodes, edges)
    \/ \E order \in Reordered(candidate.nodes) : Load(order)

SpecValidation == InitValidation /\ [][NextValidation]_vars

\* The nodes reachable from the nodes of from along edges between defined
\* nodes, in one step or more.
RECURSIVE Closure(_, _)
Closure(def, from) ==
    LET next == from \cup UNION {Successors(def, n) : n \in from}
    IN IF next = from THEN from ELSE Closure(def, next)

ReachableFrom(def, n) == Closure(def, Successors(def, n))

\* The defects of a definition.
Cyclic(def) == \E n \in NodeIds(def) : n \in ReachableFrom(def, n)
NoStart(def) == StartIndexes(def) = {}
SomeUnreachable(def) ==
    \E i \in StartIndexes(def) : \E n \in NodeIds(def) :
        n # def.nodes[i].id /\ n \notin ReachableFrom(def, def.nodes[i].id)
DanglingEdge(def) ==
    \E e \in def.edges : e.from \notin NodeIds(def) \/ e.to \notin NodeIds(def)
UndefinedRole(def) ==
    \E i \in DOMAIN def.nodes : def.nodes[i].role \notin KnownRoles \cup {""}
InvalidType(def) == \E i \in DOMAIN def.nodes : def.nodes[i].type \notin NodeTypes

Defective(def) ==
    \/ Cyclic(def) \/ NoStart(def) \/ SomeUnreachable(def)
    \/ DanglingEdge(def) \/ UndefinedRole(def) \/ InvalidType(def)

C21_WitnessAccepted ==
    /\ loadResult.done
    /\ loadResult.order # candidate.nodes
    /\ loadResult.errors = {}

----------------------------------------------------------------------------
(* Commit serialization: the project-scoped lock of serialize = true nodes *)

\* A lock shared by all projects.
LockKeyGlobal(e) == "all"

\* The mutex is keyed by the project identifier.
LockKey(e) == ProjectOf(e)

\* The attempt of the execution asks for the lock of its project: it gets it
\* and starts to commit, or finds it held and waits.
TryAcquire(e) ==
    /\ commits[e].pc \in {"idle", "blocked"}
    /\ LET holders == {h \in held : h.key = LockKey(e)}
       IN IF holders = {}
          THEN /\ held' = held \cup {[key |-> LockKey(e), holder |-> e]}
               /\ commits' = [commits EXCEPT ![e] =
                                 [pc |-> "committing", since |-> lockNow,
                                  blockedBy |-> "", overran |-> FALSE]]
          ELSE /\ held' = held
               /\ commits' = [commits EXCEPT ![e] =
                                 [@ EXCEPT !.pc = "blocked",
                                           !.blockedBy = (CHOOSE h \in holders : TRUE).holder]]
    /\ UNCHANGED lockNow
    /\ UNCHANGED outsideLock

\* The agent completes the commit: the lock, if still held, is released.
FinishCommit(e) ==
    /\ commits[e].pc = "committing"
    /\ held' = held \ {[key |-> LockKey(e), holder |-> e]}
    /\ commits' = [commits EXCEPT ![e] = NoAttempt]
    /\ UNCHANGED lockNow
    /\ UNCHANGED outsideLock

\* The lock has been held for LockTimeout minutes.
Stale(h) == lockNow - commits[h.holder].since >= LockTimeout

\* A stale lock is released. Whether the attempt that held it is stopped or
\* goes on committing is not said: both happen.
AutoRelease(e, stopped) ==
    /\ [key |-> LockKey(e), holder |-> e] \in held
    /\ Stale([key |-> LockKey(e), holder |-> e])
    /\ held' = held \ {[key |-> LockKey(e), holder |-> e]}
    /\ commits' = [commits EXCEPT ![e] =
                      IF stopped THEN NoAttempt ELSE [@ EXCEPT !.overran = TRUE]]
    /\ UNCHANGED lockNow
    /\ UNCHANGED outsideLock

\* A minute passes; a stale lock is released before the next one does.
TickLock ==
    /\ lockNow < MaxLockTime
    /\ \A h \in held : ~Stale(h)
    /\ lockNow' = lockNow + 1
    /\ UNCHANGED <<held, commits>>
    /\ UNCHANGED outsideLock

NextLock ==
    \/ \E e \in Executions : TryAcquire(e)
    \/ \E e \in Executions : FinishCommit(e)
    \/ \E e \in Executions, stopped \in BOOLEAN : AutoRelease(e, stopped)
    \/ TickLock

SpecLock == InitLoop /\ [][NextLock]_vars

Committing(e) == commits[e].pc = "committing"
HoldsLock(e) == \E h \in held : h.holder = e

\* An execution that waits, waits for an execution of its own project.
BlockedWithinProject ==
    \A e \in Executions :
        commits[e].blockedBy # "" => ProjectOf(commits[e].blockedBy) = ProjectOf(e)

----------------------------------------------------------------------------
(* Advance invoked again with the same outcome *)

\* The step is an Advance with the outcome of the Advance before it.
Repeated ==
    /\ wfLast.op = "Advance"
    /\ wfLast'.op = "Advance"
    /\ wfLast'.outcome = wfLast.outcome
    /\ calls' # calls

\* The step leaves current node, attempt counter and history as they were.
SameExecution ==
    /\ execution'.current_node = execution.current_node
    /\ execution'.attempts = execution.attempts
    /\ execution'.transitions = execution.transitions

\* The Advance of the step finds the execution at an end node, or finds no
\* single edge to follow and does not report a failure.
NothingToDo ==
    LET node == execution.current_node
        found == {e \in definition.edges :
                     /\ e.from = node
                     /\ e.outcome = wfLast'.outcome
                     /\ (e.pred = "" \/ e.pred \in wfLast'.context)}
    IN \/ definition.nodes[node].type = "end"
       \/ Cardinality(found) > 1
       \/ found = {} /\ wfLast'.outcome # "failure"

----------------------------------------------------------------------------
(* The dispatcher and the workflow state of the bead *)

\* No bead is held back.
NotPinned == FALSE

\* The bead's execution is at an approval node.
PinnedToApproval ==
    /\ execution.current_node \in DOMAIN definition.nodes
    /\ definition.nodes[execution.current_node].type = "approval"

\* The bead is a candidate of the dispatch cycle.
Candidate ==
    /\ beadStatus = "open"
    /\ beadOwner.assigned_to = "" \/ beadOwner.redispatch_requested = "true"
    /\ ~PinnedToApproval

\* DispatchOnce: the bead is handed to the agent if it is a candidate.
DispatchOnce(agent) ==
    /\ definition.id # ""
    /\ Len(dispatches) < MaxDispatch
    /\ dispatches' = Append(dispatches,
                        [node |-> execution.current_node,
                         visit |-> Len(execution.transitions),
                         status |-> beadStatus,
                         owner |-> beadOwner,
                         dispatched |-> Candidate])
    /\ beadOwner' = IF Candidate
                    THEN [assigned_to |-> agent, redispatch_requested |-> "false"]
                    ELSE beadOwner
    /\ UNCHANGED wfVars
    /\ UNCHANGED outsideDispatch

\* The agent's turn ends with the bead neither complete nor stuck.
RequestRedispatch ==
    /\ beadOwner.assigned_to # ""
    /\ beadOwner.redispatch_requested = "false"
    /\ beadStatus = "open"
    /\ beadOwner' = [beadOwner EXCEPT !.redispatch_requested = "true"]
    /\ UNCHANGED dispatches
    /\ UNCHANGED wfVars
    /\ UNCHANGED outsideDispatch

NextDispatch ==
    \/ Admit(AutoBugWorkflow)
    \/ \E outcome \in {"success", "failure"} : Advance(outcome, {})
    \/ DispatchOnce("agent-1")
    \/ RequestRedispatch

SpecDispatch == InitLoop /\ [][NextDispatch]_vars

\* C24: in no dispatch cycle is the bead dispatched while its execution is at
\* an approval node, whether it is open and unassigned or has
\* redispatch_requested = "true"; it is dispatched again only once the
\* approval node is left.
C24_ApprovalNotDispatched ==
    \A i \in DOMAIN dispatches :
        dispatches[i].dispatched =>
            definition.nodes[dispatches[i].node].type # "approval"

\* A cycle found the bead at the approval node, open and with
\* redispatch_requested = "true", and skipped it; the next cycle, after the
\* approval node was left, dispatched it.
C24_Witness ==
    /\ Len(dispatches) >= 2
    /\ LET skip == dispatches[Len(dispatches) - 1]
           again == dispatches[Len(dispatches)]
       IN /\ definition.nodes[skip.node].type = "approval"
          /\ skip.status = "open"
          /\ skip.owner.redispatch_requested = "true"
          /\ ~skip.dispatched
          /\ again.visit > skip.visit
          /\ again.dispatched

\* A cycle found the bead at the approval node, open and unassigned, and
\* skipped it.
C24_WitnessUnassigned ==
    \E i \in DOMAIN dispatches :
        /\ definition.nodes[dispatches[i].node].type = "approval"
        /\ dispatches[i].status = "open"
        /\ dispatches[i].owner.assigned_to = ""
        /\ ~dispatches[i].dispatched

----------------------------------------------------------------------------
(* Escalation of a bead to the CEO and the decision on it *)

Agents == {"agent-1", "agent-42"}
Reasons == {"loop", "missing info"}
Decisions == {"approve", "deny", "needs_more_info"}

\* CreateBead: an open bead, unassigned, with no context.
CreateBead ==
    /\ parent = NoBead
    /\ parent' = [status |-> "open", assigned_to |-> "", redispatch_requested |-> ""]
    /\ UNCHANGED decision
    /\ UNCHANGED outsideCEO

\* UpdateBead with assigned_to, status and context, before a decision is made.
UpdateBead(assignee, status, flag) ==
    /\ parent # NoBead
    /\ decision.status # "decided"
    /\ parent' = [status |-> status, assigned_to |-> assignee,
                  redispatch_requested |-> flag]
    /\ UNCHANGED decision
    /\ UNCHANGED outsideCEO

\* EscalateBeadToCEO(beadID, reason, returnedTo): a decision bead is created
\* that remembers the agent the bead may go back to.
EscalateBeadToCEO(reason, agent) ==
    /\ parent # NoBead
    /\ decision.status = "none"
    /\ decision' = [status |-> "pending", reason |-> reason,
                    requester |-> agent, decision |-> ""]
    /\ UNCHANGED parent
    /\ UNCHANGED outsideCEO

\* The decision leaves the parent bead as it was.
ParentKept(bead, d, requester) == bead

\* What the decision makes of the parent bead.
ParentAfter(bead, d, requester) ==
    CASE d = "approve" -> [bead EXCEPT !.status = "closed"]
      [] d = "deny" -> [bead EXCEPT !.status = "open", !.assigned_to = ""]
      [] d = "needs_more_info" ->
            [bead EXCEPT !.status = "open", !.assigned_to = requester,
                         !.redispatch_requested = "true"]

\* MakeDecision(decisionID, deciderID, decision, rationale).
MakeDecision(d) ==
    /\ decision.status = "pending"
    /\ decision' = [decision EXCEPT !.status = "decided", !.decision = d]
    /\ parent' = ParentAfter(parent, d, decision.requester)
    /\ UNCHANGED outsideCEO

NextCEO ==
    \/ CreateBead
    \/ \E assignee \in Agents \cup {""}, status \in {"open", "in_progress"},
          flag \in {"", "true", "false"} : UpdateBead(assignee, status, flag)
    \/ \E reason \in Reasons, agent \in Agents : EscalateBeadToCEO(reason, agent)
    \/ \E d \in Decisions : MakeDecision(d)

SpecCEO == InitLoop /\ [][NextCEO]_vars

----------------------------------------------------------------------------
(* The streaming client: OpenAIProvider.readStreamingResponse *)

\* A line of the body, split where the code splits it: what comes before the
\* data and the data. The blank line is prefix "" with data "".
SSELine(prefix, data) == [prefix |-> prefix, data |-> data]

BlankLine == SSELine("", "")
CommentLine == SSELine(":", " keep-alive")
EventLine == SSELine("event: ", "delta")
BareDoneLine == SSELine("", "[DONE]")
ChunkLine == SSELine("data: ", "{\"choices\":[]}")
BrokenLine == SSELine("data: ", "{\"choices\":")
DoneLine == SSELine("data: ", "[DONE]")

LineKinds == {BlankLine, CommentLine, EventLine, BareDoneLine, ChunkLine,
              BrokenLine, DoneLine}

\* The bodies of at most MaxLines lines.
Bodies == UNION {[1..n -> LineKinds] : n \in 0..MaxLines}

\* line == "" || strings.HasPrefix(line, ":"), and !strings.HasPrefix(line, "data: ")
Skipped(line) ==
    \/ line.prefix = "" /\ line.data = ""
    \/ line.prefix = ":"
    \/ line.prefix # "data: "

\* No data ends the stream.
NeverDone(data) == FALSE

\* data == "[DONE]"
IsDone(data) == data = "[DONE]"

\* json.Unmarshal([]byte(data), &chunk) returns no error.
Unmarshals(data) == data \in {"{\"choices\":[]}"}

\* The handler's error is dropped.
HandlerErrorIgnored(ok) == FALSE

\* err != nil for the handler's result.
HandlerFailed(ok) == ~ok

\* The end of the body is always a success.
EndOfStreamNil(n) == [kind |-> "nil", chunks |-> n, wraps |-> ""]

\* What is returned when the scanner stops without an error.
EndOfStream(n) ==
    IF n = 0
    THEN [kind |-> "stream ended without receiving any data", chunks |-> 0, wraps |-> ""]
    ELSE [kind |-> "nil", chunks |-> n, wraps |-> ""]

\* What is returned when the scanner stops with an error.
ScannerError(n) ==
    IF n > 0
    THEN [kind |-> "stream connection lost after N chunks", chunks |-> n,
          wraps |-> "scanner error"]
    ELSE [kind |-> "stream read error", chunks |-> 0, wraps |-> "scanner error"]

\* What is returned when ctx is found cancelled.
Interrupted(n) ==
    IF n > 0
    THEN [kind |-> "stream interrupted after N chunks", chunks |-> n,
          wraps |-> "ctx.Err()"]
    ELSE [kind |-> "ctx.Err()", chunks |-> 0, wraps |-> ""]

\* readStreamingResponse is called on a body.
ReadStream(body, end) ==
    /\ spc = "idle"
    /\ lines' = body
    /\ ending' = end
    /\ spc' = "scan"
    /\ UNCHANGED <<pos, chunksReceived, ctxDone, readLate, handled, streamErr>>
    /\ UNCHANGED outsideStream

\* scanner.Scan(): the next line, or the end of the body.
ScanLine ==
    /\ spc = "scan"
    /\ readLate' = ctxDone
    /\ IF pos < Len(lines)
       THEN /\ pos' = pos + 1
            /\ spc' = "select"
            /\ UNCHANGED streamErr
       ELSE /\ spc' = "returned"
            /\ streamErr' = IF ending = "error"
                            THEN ScannerError(chunksReceived)
                            ELSE EndOfStream(chunksReceived)
            /\ UNCHANGED pos
    /\ UNCHANGED <<lines, ending, chunksReceived, ctxDone, handled>>
    /\ UNCHANGED outsideStream

\* select { case <-ctx.Done(): ...; default: }
Select ==
    /\ spc = "select"
    /\ IF ctxDone
       THEN /\ spc' = "returned"
            /\ streamErr' = Interrupted(chunksReceived)
       ELSE /\ spc' = "line"
            /\ UNCHANGED streamErr
    /\ UNCHANGED <<lines, ending, pos, chunksReceived, ctxDone, readLate, handled>>
    /\ UNCHANGED outsideStream

\* The rest of the loop body; ok is whether the handler, if called, returns nil.
ProcessLine(ok) ==
    /\ spc = "line"
    /\ LET line == lines[pos]
       IN IF Skipped(line)
          THEN /\ spc' = "scan"
               /\ UNCHANGED <<chunksReceived, handled, streamErr>>
          ELSE IF IsDone(line.data)
          THEN /\ spc' = "returned"
               /\ streamErr' = [kind |-> "nil", chunks |-> chunksReceived, wraps |-> ""]
               /\ UNCHANGED <<chunksReceived, handled>>
          ELSE IF ~Unmarshals(line.data)
          THEN /\ spc' = "scan"
               /\ UNCHANGED <<chunksReceived, handled, streamErr>>
          ELSE /\ chunksReceived' = chunksReceived + 1
               /\ handled' = Append(handled, [line |-> pos, late |-> readLate, ok |-> ok])
               /\ IF HandlerFailed(ok)
                  THEN /\ spc' = "returned"
                       /\ streamErr' = [kind |-> "handler error after N chunks",
                                        chunks |-> chunksReceived + 1,
                                        wraps |-> "handler error"]
                  ELSE /\ spc' = "scan"
                       /\ UNCHANGED streamErr
    /\ UNCHANGED <<lines, ending, pos, ctxDone, readLate>>
    /\ UNCHANGED outsideStream

\* The caller cancels ctx while the stream is read.
Cancel ==
    /\ spc \in {"scan", "select", "line"}
    /\ ~ctxDone
    /\ ctxDone' = TRUE
    /\ UNCHANGED <<lines, ending, spc, pos, chunksReceived, readLate, handled, streamErr>>
    /\ UNCHANGED outsideStream

NextStream ==
    \/ spc = "idle" /\ \E body \in Bodies, end \in {"eof", "error"} : ReadStream(body, end)
    \/ ScanLine
    \/ Select
    \/ \E ok \in BOOLEAN : ProcessLine(ok)
    \/ Cancel

SpecStream == InitLoop /\ [][NextStream]_vars

\* A data line that carries a chunk, and the sentinel.
WellFormed(line) == line.prefix = "data: " /\ line.data = "{\"choices\":[]}"
Sentinel(line) == line.prefix = "data: " /\ line.data = "[DONE]"

\* No sentinel comes before line i.
BeforeSentinel(i) == \A j \in 1..(i - 1) : ~Sentinel(lines[j])

\* The lines the loop body has dealt with: all that were read, but for the
\* one at hand and the one at which a cancellation was found.
Processed ==
    IF \/ spc \in {"select", "line"}
       \/ spc = "returned" /\ streamErr.wraps = "ctx.Err()"
       \/ spc = "returned" /\ streamErr.kind = "ctx.Err()"
    THEN pos - 1
    ELSE pos

\* The handler is invoked only for well-formed data lines before the sentinel.
OnlyChunks ==
    \A k \in DOMAIN handled :
        /\ WellFormed(lines[handled[k].line])
        /\ BeforeSentinel(handled[k].line)

\* The handler is invoked in the order of the lines, once per line.
InOrder ==
    \A k1, k2 \in DOMAIN handled : k1 < k2 => handled[k1].line < handled[k2].line

\* No well-formed data line before the sentinel is passed over.
NoneMissed ==
    \A i \in 1..Processed :
        (WellFormed(lines[i]) /\ BeforeSentinel(i))
            => \E k \in DOMAIN handled : handled[k].line = i

\* Once the loop body has dealt with the sentinel the call has returned nil.
SentinelSucceeds ==
    \A i \in 1..Processed :
        Sentinel(lines[i]) => (spc = "returned" /\ streamErr.kind = "nil")

\* C26: the handler is invoked exactly once for each well-formed data line
\* before the sentinel, in the order of the lines, never for a blank line, a
\* comment line or a line without the data prefix, never for a line after the
\* sentinel; at the sentinel readStreamingResponse returns success.
C26_HandlerPerDataLine ==
    /\ OnlyChunks
    /\ InOrder
    /\ NoneMissed
    /\ SentinelSucceeds

\* A chunk, the sentinel and another chunk: the first chunk alone was
\* delivered and the call returned nil.
C26_Witness ==
    /\ Len(lines) = 3
    /\ WellFormed(lines[1]) /\ Sentinel(lines[2]) /\ WellFormed(lines[3])
    /\ spc = "returned" /\ streamErr.kind = "nil"
    /\ Len(handled) = 1 /\ handled[1].line = 1

\* C27: when the handler returns an error for a chunk, the handler is not
\* invoked again and readStreamingResponse returns an error that wraps the
\* handler's error, whatever lines follow.
C27_HandlerErrorEnds ==
    \A k \in DOMAIN handled :
        ~handled[k].ok =>
            /\ k = Len(handled)
            /\ spc = "returned"
            /\ streamErr.kind = "handler error after N chunks"
            /\ streamErr.chunks = k
            /\ streamErr.wraps = "handler error"

\* The handler failed on the first chunk, a second chunk and the sentinel
\* followed it.
C27_Witness ==
    /\ Len(lines) = 3
    /\ WellFormed(lines[1]) /\ WellFormed(lines[2]) /\ Sentinel(lines[3])
    /\ Len(handled) = 1 /\ ~handled[1].ok
    /\ spc = "returned"

\* C28: once ctx is cancelled the handler is not invoked for a line read
\* after that; a cancellation that is seen returns "stream interrupted after
\* N chunks" after N >= 1 chunks and ctx.Err() before any chunk; and a stream
\* that was cancelled before its last read never returns success.
C28_CancelledNeverSucceeds ==
    /\ \A k \in DOMAIN handled : ~handled[k].late
    /\ streamErr.kind = "stream interrupted after N chunks"
          => (ctxDone /\ streamErr.chunks = Len(handled) /\ Len(handled) >= 1)
    /\ streamErr.kind = "ctx.Err()" => (ctxDone /\ handled = <<>>)
    /\ (spc = "returned" /\ readLate) => streamErr.kind # "nil"

\* The body ended, without a read error, before a sentinel was read, and
\* the call returned at that end.
EndedWithoutDone ==
    /\ spc = "returned"
    /\ ending = "eof"
    /\ pos = Len(lines)
    /\ \A i \in DOMAIN lines : ~Sentinel(lines[i])
    /\ streamErr.kind \in {"nil", "stream ended without receiving any data"}

\* C29: when the stream ends without the sentinel, "stream ended without
\* receiving any data" is returned if and only if no chunk was delivered to
\* the handler; with at least one chunk delivered success is returned.
C29_NoDataIffNoChunk ==
    EndedWithoutDone =>
        /\ (streamErr.kind = "stream ended without receiving any data")
              <=> (handled = <<>>)
        /\ handled # <<>> => streamErr.kind = "nil"

\* A body of a data line that does not parse and a comment line ended: no
\* chunk, and the error is returned.
C29_Witness ==
    /\ EndedWithoutDone
    /\ Len(lines) = 2
    /\ lines[1].prefix = "data: " /\ ~WellFormed(lines[1])
    /\ lines[2].prefix = ":"
    /\ handled = <<>>
    /\ streamErr.kind = "stream ended without receiving any data"

\* A body of one chunk ended without the sentinel: success.
C29_WitnessDelivered ==
    /\ EndedWithoutDone
    /\ Len(handled) = 1
    /\ streamErr.kind = "nil"

----------------------------------------------------------------------------
(* Notification streams: Manager.Subscribe, Unsubscribe, broadcastToUser *)

Users == {"u1", "u2"}

\* The notification streams that clients open: user and subscriber id.
Streams == {<<"u1", "s1">>, <<"u1", "s2">>, <<"u2", "s1">>}

\* The notifications first to last, in order.
RECURSIVE Range(_, _)
Range(first, last) ==
    IF first > last THEN <<>> ELSE <<first>> \o Range(first + 1, last)

\* A send that makes room by dropping the oldest notification.
SendEvicting(ch, n) ==
    IF Len(ch) < ChannelCapacity THEN Append(ch, n) ELSE Append(Tail(ch), n)

\* select { case ch <- notification: default: } on a channel of capacity 100.
Send(ch, n) == IF Len(ch) < ChannelCapacity THEN Append(ch, n) ELSE ch

\* Subscribe(userID, subscriberID): a new channel takes the place in the map.
Subscribe(u, id) ==
    /\ sent.others < MaxOthers
    /\ sent' = [sent EXCEPT !.others = @ + 1]
    /\ subscribers' = [k \in DOMAIN subscribers \cup {<<u, id>>} |->
                          IF k = <<u, id>> THEN <<>> ELSE subscribers[k]]
    /\ received' = [k \in DOMAIN subscribers \cup {<<u, id>>} |->
                       IF k = <<u, id>> THEN 0 ELSE received[k]]
    /\ UNCHANGED notified
    /\ UNCHANGED outsideSubscribers

\* Unsubscribe(userID, subscriberID): the channel is closed and removed.
Unsubscribe(u, id) ==
    /\ <<u, id>> \in DOMAIN subscribers
    /\ sent.others < MaxOthers
    /\ sent' = [sent EXCEPT !.others = @ + 1]
    /\ subscribers' = [k \in DOMAIN subscribers \ {<<u, id>>} |-> subscribers[k]]
    /\ received' = [k \in DOMAIN subscribers \ {<<u, id>>} |-> received[k]]
    /\ UNCHANGED notified
    /\ UNCHANGED outsideSubscribers

\* broadcastToUser(userID, notification), for the next notification.
broadcastToUser(u) ==
    /\ sent.count < MaxBroadcasts
    /\ notified' = notified + 1
    /\ subscribers' = [k \in DOMAIN subscribers |->
                          IF k[1] = u THEN Send(subscribers[k], notified + 1)
                          ELSE subscribers[k]]
    /\ sent' = [sent EXCEPT !.user = u, !.n = notified + 1, !.count = @ + 1]
    /\ UNCHANGED received
    /\ UNCHANGED outsideSubscribers

\* The subscriber takes the oldest notification from its channel.
Receive(k) ==
    /\ k \in DOMAIN subscribers
    /\ subscribers[k] # <<>>
    /\ sent.others < MaxOthers
    /\ sent' = [sent EXCEPT !.others = @ + 1]
    /\ received' = [received EXCEPT ![k] = Head(subscribers[k])]
    /\ subscribers' = [subscribers EXCEPT ![k] = Tail(@)]
    /\ UNCHANGED notified
    /\ UNCHANGED outsideSubscribers

\* A new manager, or one that has broadcast Backlog notifications to u1, of
\* which subscriber s1 has taken none and s2 all.
InitSubscribers ==
    /\ LoopStart /\ KeyIdle /\ ConcIdle /\ CacheIdle /\ WorkflowIdle
    /\ ValidationIdle /\ LockIdle /\ DispatchIdle /\ CEOIdle /\ StreamIdle
    /\ LateIdle
    /\ \/ SubscribersIdle
       \/ /\ subscribers = [k \in {<<"u1", "s1">>, <<"u1", "s2">>} |->
                               IF k[2] = "s1" THEN Range(1, Backlog) ELSE <<>>]
          /\ received = [k \in {<<"u1", "s1">>, <<"u1", "s2">>} |->
                            IF k[2] = "s1" THEN 0 ELSE Backlog]
          /\ notified = Backlog
          /\ sent = [user |-> "u1", n |-> Backlog, count |-> 0, others |-> 0]

NextSubscribers ==
    \/ \E k \in Streams : Subscribe(k[1], k[2])
    \/ \E k \in Streams : Unsubscribe(k[1], k[2])
    \/ \E u \in Users : broadcastToUser(u)
    \/ \E k \in Streams : Receive(k)

SpecSubscribers == InitSubscribers /\ [][NextSubscribers]_vars

\* No channel holds more than 100 notifications.
WithinCapacity == \A k \in DOMAIN subscribers : Len(subscribers[k]) <= 100

\* Every channel holds notifications in the order of their broadcast, all of
\* them later than the last one its subscriber took.
InBroadcastOrder ==
    \A k \in DOMAIN subscribers :
        /\ \A i, j \in DOMAIN subscribers[k] : i < j => subscribers[k][i] < subscribers[k][j]
        /\ \A i \in DOMAIN subscribers[k] : received[k] < subscribers[k][i]

\* A broadcast appends the notification to each channel of the user that has
\* room, leaves a full channel of the user as it is, and leaves the channels
\* of other users alone.
BroadcastDelivers ==
    notified' # notified =>
        /\ DOMAIN subscribers' = DOMAIN subscribers
        /\ \A k \in DOMAIN subscribers :
              subscribers'[k] =
                  IF k[1] # sent'.user THEN subscribers[k]
                  ELSE IF Len(subscribers[k]) < 100
                  THEN subscribers[k] \o <<notified'>>
                  ELSE subscribers[k]

\* C30: a broadcast to a user does not wait for a subscriber; each channel
\* holds at most 100 notifications; a notification sent to a full channel is
\* dropped for that subscriber only, and every other subscriber of the user
\* whose channel has room receives it, in broadcast order.
C30_BroadcastDropsWhenFull ==
    /\ [](WithinCapacity /\ InBroadcastOrder)
    /\ [][BroadcastDelivers]_vars

\* The last broadcast to u1 found the channel of s1 full and dropped the
\* notification there; s2 has it in its channel.
C30_Witness ==
    /\ <<"u1", "s1">> \in DOMAIN subscribers
    /\ <<"u1", "s2">> \in DOMAIN subscribers
    /\ sent.user = "u1"
    /\ Len(subscribers[<<"u1", "s1">>]) = 100
    /\ \A i \in DOMAIN subscribers[<<"u1", "s1">>] : subscribers[<<"u1", "s1">>][i] # sent.n
    /\ \E i \in DOMAIN subscribers[<<"u1", "s2">>] : subscribers[<<"u1", "s2">>][i] = sent.n

----------------------------------------------------------------------------
(* SpecProgress: actions of every class on a bead whose stored context may
   be damaged *)

TestD == NewAction(<<"run_tests">>, Data(Absent, Absent, Absent))
BashE == NewAction(<<"bash">>, Data(StrVal(<<"make">>), Absent, Absent))

\* One action of each class that counts as progress, and one that does not.
ProgressInputs == {ReadA, EditC, TestD, BashE, AskB}

\* A stored action_history that is not a JSON array of records.
UnparsableHistory == [parses |-> FALSE, records |-> <<>>]

\* Stored progress_metrics: none, text that is not JSON, and
\* {"files_read":3,"files_modified":1,"tests_run":"x","commands_executed":2,
\*  "last_progress":<minute 1>}.
SyntaxBroken == [NoMetrics EXCEPT !.set = TRUE] @@ [bad |-> "syntax"]
TypeBroken ==
    [set |-> TRUE, bad |-> "type", FilesRead |-> 3, FilesModified |-> 1,
     TestsRun |-> 0, CommandsExecuted |-> 2, LastProgress |-> 1]

InitProgress ==
    /\ KeyIdle /\ ConcIdle /\ CacheIdle /\ WorkflowIdle /\ PartsIdle
    /\ repeatThreshold = MinThreshold
    /\ action_history \in {EmptyContextValue, UnparsableHistory}
    /\ progress_metrics \in {NoMetrics, SyntaxBroken, TypeBroken}
    /\ now = 1
    /\ op = "new"
    /\ verdict = NotStuck
    /\ lastAction = ReadA
    /\ prevMetrics = NoMetrics
    /\ recorded = <<>>

RecordProgress ==
    /\ Len(recorded) < MaxRecords
    /\ \E action \in ProgressInputs : RecordAction(action)

NextProgress == RecordProgress \/ QueryStuck \/ Tick

SpecProgress == InitProgress /\ [][NextProgress]_vars

\* The classes of action that count as progress.
ReadClass == {<<"read_file">>, <<"glob">>, <<"grep">>}
ModifyClass == {<<"edit_file">>, <<"write_file">>}
TestClass == {<<"run_tests">>, <<"test">>}
CommandClass == {<<"bash">>, <<"execute">>}
ProgressClass(action) ==
    action.ActionType \in ReadClass \cup ModifyClass \cup TestClass \cup CommandClass

\* An action that counts as progress has been recorded in this run.
SomeProgressRecorded == \E i \in 1..Len(recorded) : ProgressClass(recorded[i])

\* The step records an action that counts as progress.
RecordsProgress == op' = "RecordAction" /\ recorded' # recorded /\ ProgressClass(lastAction')

C35_WitnessStuck ==
    /\ op = "IsStuckInLoop"
    /\ SomeProgressRecorded
    /\ now - progress_metrics.LastProgress = ProgressWindow
    /\ verdict.stuck

\* The four counters of stored metrics, and the counters one recording of the
\* action adds to metrics that are all zero.
CountersOf(m) == <<m.FilesRead, m.FilesModified, m.TestsRun, m.CommandsExecuted>>
FirstCount(action) ==
    <<IF action.ActionType \in ReadClass THEN 1 ELSE 0,
      IF action.ActionType \in ModifyClass THEN 1 ELSE 0,
      IF action.ActionType \in TestClass THEN 1 ELSE 0,
      IF action.ActionType \in CommandClass THEN 1 ELSE 0>>

\* The step is a call of RecordAction.
Records == op' = "RecordAction" /\ recorded' # recorded

\* C36: with a stored action_history that cannot be parsed IsStuckInLoop
\* returns (false, "") and the next RecordAction stores a history of exactly
\* one record, the new action; with stored progress_metrics that cannot be
\* parsed the counters restart from zero before the increment.
C36_DamagedContextRestarts ==
    /\ []((op = "IsStuckInLoop" /\ ~action_history.parses) => verdict = NotStuck)
    /\ [][(Records /\ ~action_history.parses)
            => action_history' = [parses |-> TRUE, records |-> <<WithKey(lastAction')>>]]_vars
    /\ [][(Records /\ Unparsable(progress_metrics))
            => CountersOf(progress_metrics') = FirstCount(lastAction')]_vars

\* The part of C36 about the history alone.
C36_DamagedHistoryRestarts ==
    /\ []((op = "IsStuckInLoop" /\ ~action_history.parses) => verdict = NotStuck)
    /\ [][(Records /\ ~action_history.parses)
            => action_history' = [parses |-> TRUE, records |-> <<WithKey(lastAction')>>]]_vars

----------------------------------------------------------------------------
(* SpecHub: the notification manager under concurrent Subscribe, Unsubscribe
   and ProcessActivity.  Every step between two lock operations is a step of
   its own. *)

HubWorkers == {"w1", "w2"}

\* The (user, subscriber) pairs the goroutines subscribe and unsubscribe.
HubKeys == {<<"u1", "s1">>, <<"u2", "s1">>}

\* db.ListUsers()
UserList == <<"u1", "u2">>

\* make(chan *Notification, 100)
NewChannel == [closed |-> FALSE, queued |-> 0, returned |-> FALSE]

\* make(map[string]chan *Notification)
NoSubs == [id \in {} |-> 0]

\* subscribersMu.Lock() and subscribersMu.RLock() can proceed.
CanLock(mu) == mu.writer = "" /\ mu.readers = {}
CanRLock(mu) == mu.writer = ""

\* An Unsubscribe that leaves the closed channel in the map.
Kept(userSubs, id) == userSubs

\* delete(userSubs, subscriberID)
Deleted(userSubs, id) == [k \in DOMAIN userSubs \ {id} |-> userSubs[k]]

\* The channels of a user's subscribers.
ChannelsOf(u) ==
    IF u \in DOMAIN subscribersByUser
    THEN {subscribersByUser[u][id] : id \in DOMAIN subscribersByUser[u]}
    ELSE {}

\* The channel is in the subscriber map.
Registered(c) == \E u \in DOMAIN subscribersByUser : c \in ChannelsOf(u)

\* Subscribe: subscribersMu.Lock()
SubscribeLock(w, u, id) ==
    /\ workers[w].pc = "idle"
    /\ Len(channels) < MaxChannels
    /\ CanLock(subscribersMu)
    /\ subscribersMu' = [subscribersMu EXCEPT !.writer = w]
    /\ workers' = [workers EXCEPT ![w] =
                      [pc |-> "ensure", call |-> "Subscribe", user |-> u,
                       id |-> id, ch |-> 0]]
    /\ UNCHANGED <<subscribersByUser, channels, activityLoop, trail, faults>>
    /\ UNCHANGED outsideHub

\* Subscribe: "if m.subscribers[userID] == nil { ... make ... }"
SubscribeEnsure(w) ==
    /\ workers[w].pc = "ensure"
    /\ subscribersByUser' =
          IF workers[w].user \in DOMAIN subscribersByUser THEN subscribersByUser
          ELSE (workers[w].user :> NoSubs) @@ subscribersByUser
    /\ workers' = [workers EXCEPT ![w].pc = "insert"]
    /\ UNCHANGED <<channels, subscribersMu, activityLoop, trail, faults>>
    /\ UNCHANGED outsideHub

\* Subscribe: "ch := make(...); m.subscribers[userID][subscriberID] = ch"
SubscribeInsert(w) ==
    LET c == Len(channels) + 1 IN
    /\ workers[w].pc = "insert"
    /\ channels' = Append(channels, NewChannel)
    /\ subscribersByUser' =
          [subscribersByUser EXCEPT ![workers[w].user] = (workers[w].id :> c) @@ @]
    /\ workers' = [workers EXCEPT ![w].pc = "unlock", ![w].ch = c]
    /\ UNCHANGED <<subscribersMu, activityLoop, trail, faults>>
    /\ UNCHANGED outsideHub

\* Unsubscribe: subscribersMu.Lock()
UnsubscribeLock(w, u, id) ==
    /\ workers[w].pc = "idle"
    /\ CanLock(subscribersMu)
    /\ subscribersMu' = [subscribersMu EXCEPT !.writer = w]
    /\ workers' = [workers EXCEPT ![w] =
                      [pc |-> "find", call |-> "Unsubscribe", user |-> u,
                       id |-> id, ch |-> 0]]
    /\ UNCHANGED <<subscribersByUser, channels, activityLoop, trail, faults>>
    /\ UNCHANGED outsideHub

\* Unsubscribe: the two lookups and close(ch).  Closing a closed channel
\* panics.
UnsubscribeClose(w) ==
    LET u == workers[w].user
        id == workers[w].id
    IN /\ workers[w].pc = "find"
       /\ IF u \in DOMAIN subscribersByUser /\ id \in DOMAIN subscribersByUser[u]
          THEN LET c == subscribersByUser[u][id] IN
               /\ channels' = [channels EXCEPT ![c].closed = TRUE]
               /\ faults' = IF channels[c].closed
                            THEN faults \cup {"close of closed channel"}
                            ELSE faults
               /\ workers' = [workers EXCEPT ![w].pc = "delete", ![w].ch = c]
          ELSE /\ workers' = [workers EXCEPT ![w].pc =
                                 IF u \in DOMAIN subscribersByUser
                                 THEN "cleanup" ELSE "unlock"]
               /\ UNCHANGED <<channels, faults>>
       /\ UNCHANGED <<subscribersByUser, subscribersMu, activityLoop, trail>>
       /\ UNCHANGED outsideHub

\* Unsubscribe: delete(userSubs, subscriberID)
UnsubscribeDelete(w) ==
    /\ workers[w].pc = "delete"
    /\ subscribersByUser' =
          [subscribersByUser EXCEPT ![workers[w].user] = Deleted(@, workers[w].id)]
    /\ workers' = [workers EXCEPT ![w].pc = "cleanup"]
    /\ UNCHANGED <<channels, subscribersMu, activityLoop, trail, faults>>
    /\ UNCHANGED outsideHub

\* Unsubscribe: "if len(userSubs) == 0 { delete(m.subscribers, userID) }"
UnsubscribeCleanup(w) ==
    LET u == workers[w].user IN
    /\ workers[w].pc = "cleanup"
    /\ subscribersByUser' =
          IF DOMAIN subscribersByUser[u] = {}
          THEN [x \in DOMAIN subscribersByUser \ {u} |-> subscribersByUser[x]]
          ELSE subscribersByUser
    /\ workers' = [workers EXCEPT ![w].pc = "unlock"]
    /\ UNCHANGED <<channels, subscribersMu, activityLoop, trail, faults>>
    /\ UNCHANGED outsideHub

\* The deferred subscribersMu.Unlock(); Subscribe returns its channel.
Unlock(w) ==
    /\ workers[w].pc = "unlock"
    /\ subscribersMu' = [subscribersMu EXCEPT !.writer = ""]
    /\ channels' = IF workers[w].call = "Subscribe"
                   THEN [channels EXCEPT ![workers[w].ch].returned = TRUE]
                   ELSE channels
    /\ workers' = [workers EXCEPT ![w] = NoWork]
    /\ UNCHANGED <<subscribersByUser, activityLoop, trail, faults>>
    /\ UNCHANGED outsideHub

\* What the database and the clock hold for one user when ProcessActivity
\* reaches them: the outcome of ShouldNotify's GetPreferences and of its four
\* tests, of the second GetPreferences, the user's EnableInApp, and the
\* outcome of CreateNotification.
\* Taken here: everything in order, any one thing out of order, and everything.
Favourable ==
    [shouldErr |-> FALSE, subscribed |-> TRUE, quiet |-> FALSE, meets |-> TRUE,
     titled |-> TRUE, prefsErr |-> FALSE, EnableInApp |-> TRUE, created |-> TRUE]
Adverse == [f \in DOMAIN Favourable |-> ~Favourable[f]]
Circumstances ==
    {Favourable, Adverse}
        \cup {[Favourable EXCEPT ![f] = ~@] : f \in DOMAIN Favourable}

\* ShouldNotify: the bool it returns.
ShouldNotify(c) ==
    IF c.shouldErr THEN FALSE
    ELSE IF ~c.subscribed THEN FALSE
    ELSE IF c.quiet THEN FALSE
    ELSE IF ~c.meets THEN FALSE
    ELSE IF ~c.titled THEN FALSE
    ELSE TRUE

\* A loop body that broadcasts whatever CreateNotification returns.
ReachesBroadcastUnpersisted(c) ==
    IF ~ShouldNotify(c) THEN FALSE
    ELSE IF c.prefsErr THEN FALSE
    ELSE IF ~c.EnableInApp THEN FALSE
    ELSE TRUE

\* The body of ProcessActivity's loop reaches broadcastToUser: none of its
\* four "continue" is taken.
ReachesBroadcast(c) ==
    IF ~ShouldNotify(c) THEN FALSE
    ELSE IF c.prefsErr THEN FALSE
    ELSE IF ~c.EnableInApp THEN FALSE
    ELSE IF ~c.created THEN FALSE
    ELSE TRUE

\* An activity arrives: ProcessActivity lists the users, and returns at once
\* when that fails.
StartActivity(listOk) ==
    /\ activityLoop.pc = "idle"
    /\ activityLoop.activities < MaxActivities
    /\ activityLoop' =
          [pc |-> IF listOk THEN "user" ELSE "idle", i |-> IF listOk THEN 1 ELSE 0,
           visited |-> {}, activities |-> activityLoop.activities + 1,
           listed |-> listOk]
    /\ trail' = [u \in DOMAIN trail |-> NotSeen]
    /\ UNCHANGED <<subscribersByUser, channels, subscribersMu, workers, faults>>
    /\ UNCHANGED outsideHub

\* The body of the loop up to the call of broadcastToUser.
ConsiderUser(c) ==
    LET u == UserList[activityLoop.i] IN
    /\ activityLoop.pc = "user"
    /\ activityLoop.i <= Len(UserList)
    /\ trail' = [trail EXCEPT ![u] =
                    [seen |-> TRUE,
                     accepted |-> ShouldNotify(c),
                     inApp |-> ShouldNotify(c) /\ ~c.prefsErr /\ c.EnableInApp,
                     persisted |-> /\ ShouldNotify(c) /\ ~c.prefsErr
                                   /\ c.EnableInApp /\ c.created,
                     broadcast |-> FALSE]]
    /\ activityLoop' =
          IF ReachesBroadcast(c) THEN [activityLoop EXCEPT !.pc = "rlock"]
          ELSE [activityLoop EXCEPT !.i = @ + 1]
    /\ UNCHANGED <<subscribersByUser, channels, subscribersMu, workers, faults>>
    /\ UNCHANGED outsideHub

\* The loop has passed the last user; ProcessActivity returns nil.
FinishActivity ==
    /\ activityLoop.pc = "user"
    /\ activityLoop.i > Len(UserList)
    /\ activityLoop' = [activityLoop EXCEPT !.pc = "idle"]
    /\ UNCHANGED <<subscribersByUser, channels, subscribersMu, workers, trail, faults>>
    /\ UNCHANGED outsideHub

\* broadcastToUser: subscribersMu.RLock()
BroadcastRLock ==
    /\ activityLoop.pc = "rlock"
    /\ CanRLock(subscribersMu)
    /\ subscribersMu' = [subscribersMu EXCEPT !.readers = @ \cup {"activities"}]
    /\ activityLoop' = [activityLoop EXCEPT !.pc = "range", !.visited = {}]
    /\ trail' = [trail EXCEPT ![UserList[activityLoop.i]].broadcast = TRUE]
    /\ UNCHANGED <<subscribersByUser, channels, workers, faults>>
    /\ UNCHANGED outsideHub

\* broadcastToUser: one turn of the range over the user's subscribers, in the
\* order the map yields them.  A send on a closed channel panics; a full
\* channel is skipped.
BroadcastSend(c) ==
    /\ activityLoop.pc = "range"
    /\ c \in ChannelsOf(UserList[activityLoop.i]) \ activityLoop.visited
    /\ IF channels[c].closed
       THEN /\ faults' = faults \cup {"send on closed channel"}
            /\ UNCHANGED channels
       ELSE /\ channels' = [channels EXCEPT ![c].queued =
                               IF @ < ChannelCapacity THEN @ + 1 ELSE @]
            /\ UNCHANGED faults
    /\ activityLoop' = [activityLoop EXCEPT !.visited = @ \cup {c}]
    /\ UNCHANGED <<subscribersByUser, subscribersMu, workers, trail>>
    /\ UNCHANGED outsideHub

\* broadcastToUser: the range is over; the deferred subscribersMu.RUnlock().
BroadcastRUnlock ==
    /\ activityLoop.pc = "range"
    /\ ChannelsOf(UserList[activityLoop.i]) \subseteq activityLoop.visited
    /\ subscribersMu' = [subscribersMu EXCEPT !.readers = @ \ {"activities"}]
    /\ activityLoop' = [activityLoop EXCEPT !.pc = "user", !.i = @ + 1, !.visited = {}]
    /\ UNCHANGED <<subscribersByUser, channels, workers, trail, faults>>
    /\ UNCHANGED outsideHub

InitHub == InitLoop

NextHub ==
    \/ \E w \in HubWorkers : \E k \in HubKeys : SubscribeLock(w, k[1], k[2])
    \/ \E w \in HubWorkers : SubscribeEnsure(w)
    \/ \E w \in HubWorkers : SubscribeInsert(w)
    \/ \E w \in HubWorkers : \E k \in HubKeys : UnsubscribeLock(w, k[1], k[2])
    \/ \E w \in HubWorkers : UnsubscribeClose(w)
    \/ \E w \in HubWorkers : UnsubscribeDelete(w)
    \/ \E w \in HubWorkers : UnsubscribeCleanup(w)
    \/ \E w \in HubWorkers : Unlock(w)
    \/ \E listOk \in BOOLEAN : StartActivity(listOk)
    \/ activityLoop.pc = "user" /\ \E c \in Circumstances : ConsiderUser(c)
    \/ FinishActivity
    \/ BroadcastRLock
    \/ \E c \in 1..Len(channels) : BroadcastSend(c)
    \/ BroadcastRUnlock

SpecHub == InitHub /\ [][NextHub]_vars

\* C37: under any interleaving no notification is sent on a closed channel
\* and no channel is closed twice; a channel is closed only under the write
\* lock, by the Unsubscribe that is about to delete it from the map; and when
\* no writer is inside the map, no user entry has an empty subscriber set.
C37_CloseOnlyWhileRemoving ==
    /\ [](faults = {})
    /\ [](\A c \in 1..Len(channels) :
            (channels[c].closed /\ Registered(c))
               => \E w \in HubWorkers :
                     /\ subscribersMu.writer = w
                     /\ workers[w].pc = "delete"
                     /\ workers[w].ch = c)
    /\ [](subscribersMu.writer = ""
            => \A u \in DOMAIN subscribersByUser : DOMAIN subscribersByUser[u] # {})
    /\ [][\A c \in 1..Len(channels) :
            (channels'[c].closed /\ ~channels[c].closed)
               => /\ subscribersMu.writer \in HubWorkers
                  /\ subscribersMu.readers = {}
                  /\ Registered(c)]_vars

\* A broadcast is under way to a user one of whose earlier channels is closed
\* and gone from the map, while the other user's entry has been cleaned up.
C37_Witness ==
    /\ activityLoop.pc = "range"
    /\ \E c \in activityLoop.visited : channels[c].queued = 1
    /\ \E c \in 1..Len(channels) : channels[c].closed /\ ~Registered(c)
    /\ \E w \in HubWorkers : workers[w].pc = "idle"
    /\ Len(channels) = MaxChannels
    /\ Cardinality(DOMAIN subscribersByUser) = 1

\* C38: every channel Subscribe has returned is still in the subscriber map
\* or has been closed.
C38_ReturnedChannelLive ==
    \A c \in 1..Len(channels) :
        channels[c].returned => (Registered(c) \/ channels[c].closed)

\* C40: ProcessActivity calls broadcastToUser for a user only when ShouldNotify
\* accepted the activity, the user's in-app notifications are enabled and the
\* notification has been persisted; and when it returns after listing the
\* users it has looked at every one of them, whatever failed for the others.
C40_BroadcastAfterPersist ==
    /\ \A u \in DOMAIN trail :
          trail[u].broadcast
             => trail[u].accepted /\ trail[u].inApp /\ trail[u].persisted
    /\ activityLoop.pc \in {"rlock", "range"}
          => trail[UserList[activityLoop.i]].persisted
    /\ (activityLoop.pc = "range" /\ activityLoop.visited # {})
          => trail[UserList[activityLoop.i]].broadcast
    /\ (activityLoop.pc = "idle" /\ activityLoop.listed)
          => \A u \in DOMAIN trail : trail[u].seen

\* Persisting the notification of u1 failed, and u2's subscriber has received
\* the broadcast of the same activity.
C40_Witness ==
    /\ activityLoop.pc = "idle"
    /\ trail["u1"].accepted /\ trail["u1"].inApp
    /\ ~trail["u1"].persisted /\ ~trail["u1"].broadcast
    /\ trail["u2"].broadcast
    /\ \E c \in ChannelsOf("u2") : channels[c].queued = 1

----------------------------------------------------------------------------
(* SpecGit: concurrent forProject calls on one ProjectGitRouter *)

\* The project ids the callers ask for.
GitProjects == {"", "p1", "p2"}

\* forProject up to the end of its read-locked lookup: the empty project id
\* is refused, a cached adapter is returned, and otherwise the caller goes on
\* to create one, the lock released.
forProjectLookup(g, projectID) ==
    /\ gitCalls[g].pc = "idle"
    /\ IF projectID = ""
       THEN /\ gitCalls' = [gitCalls EXCEPT ![g] =
                               [pc |-> "idle", projectID |-> projectID,
                                adapter |-> 0, result |-> "error"]]
            /\ UNCHANGED handed
       ELSE IF projectID \in DOMAIN cache
       THEN /\ gitCalls' = [gitCalls EXCEPT ![g] =
                               [pc |-> "idle", projectID |-> projectID,
                                adapter |-> cache[projectID], result |-> "adapter"]]
            /\ handed' = handed \cup {<<projectID, cache[projectID]>>}
       ELSE /\ gitCalls' = [gitCalls EXCEPT ![g] =
                               [pc |-> "create", projectID |-> projectID,
                                adapter |-> 0, result |-> ""]]
            /\ UNCHANGED handed
    /\ UNCHANGED <<cache, adapters>>
    /\ UNCHANGED outsideGit

\* forProject: NewGitServiceAdapter, outside every lock.
forProjectCreate(g, ok) ==
    /\ gitCalls[g].pc = "create"
    /\ ok => Len(adapters) < MaxAdapters
    /\ IF ok
       THEN /\ adapters' = Append(adapters, gitCalls[g].projectID)
            /\ gitCalls' = [gitCalls EXCEPT ![g].pc = "store",
                                            ![g].adapter = Len(adapters) + 1]
       ELSE /\ gitCalls' = [gitCalls EXCEPT ![g].pc = "idle", ![g].result = "error"]
            /\ UNCHANGED adapters
    /\ UNCHANGED <<cache, handed>>
    /\ UNCHANGED outsideGit

\* forProject: "r.cache[projectID] = adapter" under the write lock, and the
\* return of the adapter.
forProjectStore(g) ==
    /\ gitCalls[g].pc = "store"
    /\ cache' = (gitCalls[g].projectID :> gitCalls[g].adapter) @@ cache
    /\ handed' = handed \cup {<<gitCalls[g].projectID, gitCalls[g].adapter>>}
    /\ gitCalls' = [gitCalls EXCEPT ![g].pc = "idle", ![g].result = "adapter"]
    /\ UNCHANGED adapters
    /\ UNCHANGED outsideGit

InitGit == InitLoop

NextGit ==
    \/ \E g \in Callers : \E projectID \in GitProjects : forProjectLookup(g, projectID)
    \/ \E g \in Callers : \E ok \in BOOLEAN : forProjectCreate(g, ok)
    \/ \E g \in Callers : forProjectStore(g)

SpecGit == InitGit /\ [][NextGit]_vars

\* A forProject call of g returns an error in this step: the failing creation,
\* or a step in which no other goroutine moves.
ReturnsError(g) ==
    /\ gitCalls'[g].pc = "idle"
    /\ gitCalls'[g].result = "error"
    /\ \/ gitCalls[g].pc = "create"
       \/ \A h \in Callers \ {g} : gitCalls'[h] = gitCalls[h]

\* C39: every caller of forProject gets the same adapter for a project and at
\* most one adapter is created per project, also under concurrent calls; a
\* call that returns an error leaves the cache as it was.
C39_OneAdapterPerProject ==
    /\ [](\A x \in handed : \A y \in handed : x[1] = y[1] => x[2] = y[2])
    /\ [](\A i \in 1..Len(adapters) : \A j \in 1..Len(adapters) :
             adapters[i] = adapters[j] => i = j)
    /\ [][\A g \in Callers : ReturnsError(g) => cache' = cache]_vars

\* The part of C39 about failing calls alone.
C39_ErrorsLeaveCache ==
    [][\A g \in Callers : ReturnsError(g) => cache' = cache]_vars

----------------------------------------------------------------------------
(* SpecLessons: lessons are recorded and retrieved for one project.  A lesson
   is kept as the length of its category, title and detail together and
   whether it was stored with an embedding; a block is kept as its header and
   the lessons it lists (positions in lessonDB). *)

\* The lengths of the lessons recorded.
LessonTexts == {989, 1389, 2089}

\* RecordLesson: StoreLessonWithEmbedding when the embedder delivers a vector,
\* CreateLesson otherwise; a failing store returns the error.
RecordLesson(text, embedOk, storeOk) ==
    /\ Len(lessonDB) < MaxLessons
    /\ lessonDB' = IF storeOk
                   THEN Append(lessonDB, [text |-> text, embedded |-> embedOk])
                   ELSE lessonDB
    /\ lessonCall' = NoLessonCall
    /\ lessonBlock' = NoBlock
    /\ UNCHANGED outsideLessons

\* db.GetLessonsForProject: the lessons of the project, the most recent first.
Recent(db) == [i \in 1..Len(db) |-> Len(db) + 1 - i]

\* GetLessonsForPrompt: "" when the listing fails or is empty, else the block
\* "The following lessons were learned from previous work on this project..."
GetLessonsForPrompt(db, listOk) ==
    IF ~listOk THEN NoBlock
    ELSE IF Len(db) = 0 THEN NoBlock
    ELSE [header |-> "learned", lessons |-> Recent(db)]

\* "if topK <= 0 { topK = 5 }"
EffectiveTopK(topK) == IF topK <= 0 THEN DefaultTopK ELSE topK

\* What db.SearchLessonsBySimilarity can return for some query vector: the
\* lessons that have an embedding in some order of similarity, cut to topK.
Rankings(db, topK) ==
    LET have == {i \in 1..Len(db) : db[i].embedded}
        n == IF Cardinality(have) < topK THEN Cardinality(have) ELSE topK
    IN {r \in [1..n -> have] : \A i \in 1..n : \A j \in 1..n : r[i] = r[j] => i = j}

\* len(entry) for "### %s: %s\n- %s\n\n"
EntryLength(lesson) == lesson.text + EntryOverhead

\* The loop of GetRelevantLessons from lesson i on: the lessons written to the
\* block.  totalChars counts the entries only, and counts an entry before the
\* test that leaves the loop.
RECURSIVE Entries(_, _, _, _)
Entries(db, found, i, totalChars) ==
    IF i > Len(found) THEN <<>>
    ELSE LET total == totalChars + EntryLength(db[found[i]])
         IN IF total > CharBudget THEN <<>>
            ELSE <<found[i]>> \o Entries(db, found, i + 1, total)

\* GetRelevantLessons: the block returned, given what the embedder, the
\* similarity search and the listing do during the call.
RelevantLessons(db, call) ==
    IF call.taskContext = "" THEN GetLessonsForPrompt(db, call.listOk)
    ELSE IF ~call.embedOk THEN GetLessonsForPrompt(db, call.listOk)
    ELSE IF ~call.searchOk THEN GetLessonsForPrompt(db, call.listOk)
    ELSE IF Len(call.found) = 0 THEN NoBlock
    ELSE [header |-> "relevant", lessons |-> Entries(db, call.found, 1, 0)]

\* A retrieval leaves the lessons as they are, so a retrieval that follows
\* another one is the same as one in its place.
GetRelevantLessons(taskContext, topK, embedOk, searchOk, found, listOk) ==
    LET call == [asked |-> TRUE, taskContext |-> taskContext, topK |-> topK,
                 embedOk |-> embedOk, searchOk |-> searchOk, found |-> found,
                 listOk |-> listOk]
    IN /\ ~lessonCall.asked
       /\ lessonCall' = call
       /\ lessonBlock' = RelevantLessons(lessonDB, call)
       /\ UNCHANGED lessonDB
       /\ UNCHANGED outsideLessons

InitLessons == InitLoop

NextLessons ==
    \/ \E text \in LessonTexts : \E embedOk \in BOOLEAN : \E storeOk \in BOOLEAN :
          RecordLesson(text, embedOk, storeOk)
    \/ /\ ~lessonCall.asked
       /\ \E taskContext \in {"", "fix the build"} : \E topK \in {0, 2} :
          \E embedOk \in BOOLEAN : \E searchOk \in BOOLEAN : \E listOk \in BOOLEAN :
          \E found \in Rankings(lessonDB, EffectiveTopK(topK)) :
             GetRelevantLessons(taskContext, topK, embedOk, searchOk, found, listOk)

SpecLessons == InitLessons /\ [][NextLessons]_vars

\* The length of a block of relevant lessons.
BlockLength(block) ==
    LET RECURSIVE Sum(_)
        Sum(i) == IF i > Len(block.lessons) THEN 0
                  ELSE EntryLength(lessonDB[block.lessons[i]]) + Sum(i + 1)
    IN HeaderLength + Sum(1)

\* The similarity search ran and found nothing.
FoundNothing ==
    /\ lessonCall.taskContext # ""
    /\ lessonCall.embedOk
    /\ lessonCall.searchOk
    /\ lessonCall.found = <<>>

\* C32: GetRelevantLessons returns the recency block of GetLessonsForPrompt
\* whenever the task context is empty, the embedding or the similarity search
\* fails, or the similarity search yields no lesson.
C32_FallsBackToRecent ==
    (/\ lessonCall.asked
     /\ \/ lessonCall.taskContext = ""
        \/ ~lessonCall.embedOk
        \/ ~lessonCall.searchOk
        \/ FoundNothing)
        => lessonBlock = GetLessonsForPrompt(lessonDB, lessonCall.listOk)

\* The cases of C32 in which the code does fall back.
C32_FallsBackOnFailure ==
    (/\ lessonCall.asked
     /\ \/ lessonCall.taskContext = ""
        \/ ~lessonCall.embedOk
        \/ ~lessonCall.searchOk)
        => lessonBlock = GetLessonsForPrompt(lessonDB, lessonCall.listOk)

\* C33: the block GetRelevantLessons formats from a similarity search is at
\* most 2000 characters long, and its lessons are a prefix of the ranking
\* found, at most top-K of them.
C33_BlockWithinBudget ==
    (lessonCall.asked /\ lessonBlock.header = "relevant")
        => /\ BlockLength(lessonBlock) <= CharBudget
           /\ Len(lessonBlock.lessons) <= EffectiveTopK(lessonCall.topK)
           /\ lessonBlock.lessons = SubSeq(lessonCall.found, 1, Len(lessonBlock.lessons))

\* What the code does keep: the entries alone within 2000, a prefix of the
\* ranking, at most top-K.
C33_EntriesWithinBudget ==
    (lessonCall.asked /\ lessonBlock.header = "relevant")
        => /\ BlockLength(lessonBlock) - HeaderLength <= CharBudget
           /\ Len(lessonBlock.lessons) <= EffectiveTopK(lessonCall.topK)
           /\ lessonBlock.lessons = SubSeq(lessonCall.found, 1, Len(lessonBlock.lessons))

----------------------------------------------------------------------------
(* SpecExtract: one ExtractFromLoop call, a store call per step *)

ActionEntry(type, status, path) == [ActionType |-> type, Status |-> status, Path |-> path]

\* The entries of the transcripts handed to the extractor.
EntryKinds ==
    {ActionEntry("build_project", "error", ""),
     ActionEntry("run_tests", "error", ""),
     ActionEntry("edit_code", "error", "a.go"),
     ActionEntry("read_file", "success", "a.go")}

\* The transcripts: every sequence of at most MaxEntries entries.
Transcripts == UNION {[1..n -> EntryKinds] : n \in 0..MaxEntries}

\* The terminal reasons handed to the extractor.
TerminalReasons == {"max_iterations", "inner_loop", "parse_failures", "completed", ""}

\* The number of entries that satisfy the test.
CountEntries(entries, Test(_)) == Cardinality({i \in 1..Len(entries) : Test(entries[i])})

\* extractBuildPatterns
extractBuildPatterns(entries) ==
    LET Failed(e) == e.ActionType = "build_project" /\ e.Status = "error"
        n == CountEntries(entries, Failed)
    IN IF n < 2 THEN <<>>
       ELSE <<[kind |-> "build", title |-> <<"Repeated build failures", n>>]>>

\* extractTestPatterns
extractTestPatterns(entries) ==
    LET Failed(e) == e.ActionType = "run_tests" /\ e.Status = "error"
        n == CountEntries(entries, Failed)
    IN IF n < 2 THEN <<>>
       ELSE <<[kind |-> "test", title |-> <<"Repeated test failures", n>>]>>

\* extractEditPatterns, for transcripts whose failing edits have one path.
extractEditPatterns(entries) ==
    LET Failed(e) == /\ e.ActionType \in {"apply_patch", "edit_code"}
                     /\ e.Status = "error"
                     /\ e.Path = "a.go"
        n == CountEntries(entries, Failed)
    IN IF n >= 2
       THEN <<[kind |-> "edit", title |-> <<"Repeated edit failures on", "a.go">>]>>
       ELSE <<>>

\* extractTerminalInsight: the lesson, or nothing for nil.
extractTerminalInsight(reason, totalActions) ==
    IF reason = "max_iterations"
      THEN <<[kind |-> "terminal", title |-> <<"Task hit max iterations", totalActions>>]>>
    ELSE IF reason = "inner_loop"
      THEN <<[kind |-> "terminal", title |-> <<"Agent stuck in action loop", 0>>]>>
    ELSE IF reason = "parse_failures"
      THEN <<[kind |-> "terminal", title |-> <<"Agent produced unparseable responses", 0>>]>>
    ELSE <<>>

\* ExtractFromLoop up to its loop over the lessons: the lessons extracted.
ExtractedLessons(entries, terminalReason) ==
    IF Len(entries) = 0 THEN <<>>
    ELSE extractBuildPatterns(entries) \o extractTestPatterns(entries)
            \o extractEditPatterns(entries)
            \o extractTerminalInsight(terminalReason, Len(entries))

ExtractFromLoop(entries, terminalReason) ==
    LET lessons == ExtractedLessons(entries, terminalReason) IN
    /\ extraction.pc = "idle"
    /\ extraction' = [pc |-> IF lessons = <<>> THEN "done" ELSE "store",
                      entries |-> entries, terminalReason |-> terminalReason,
                      lessons |-> lessons]
    /\ pending' = lessons
    /\ UNCHANGED storeCalls
    /\ UNCHANGED outsideExtract

\* One turn of the loop over the lessons: StoreLessonWithEmbedding when the
\* embedder delivers a vector, CreateLesson otherwise; a failing store is
\* logged and the loop goes on.
StoreLesson(embedOk, storeOk) ==
    /\ extraction.pc = "store"
    /\ storeCalls' = Append(storeCalls,
                            [call |-> IF embedOk THEN "StoreLessonWithEmbedding"
                                      ELSE "CreateLesson",
                             embedded |-> embedOk,
                             lesson |-> Head(pending), ok |-> storeOk])
    /\ pending' = Tail(pending)
    /\ extraction' = [extraction EXCEPT !.pc = IF Tail(pending) = <<>> THEN "done"
                                               ELSE "store"]
    /\ UNCHANGED outsideExtract

InitExtract == InitLoop

NextExtract ==
    \/ /\ extraction.pc = "idle"
       /\ \E entries \in Transcripts : \E terminalReason \in TerminalReasons :
             ExtractFromLoop(entries, terminalReason)
    \/ \E embedOk \in BOOLEAN : \E storeOk \in BOOLEAN : StoreLesson(embedOk, storeOk)

SpecExtract == InitExtract /\ [][NextExtract]_vars

\* The terminal reasons that have a standing lesson.
StandingReasons == {"max_iterations", "inner_loop", "parse_failures"}

\* The standing lessons among the store calls so far.
StandingStored == {i \in 1..Len(storeCalls) : storeCalls[i].lesson.kind = "terminal"}

\* Every lesson emitted has been handed to the store once, in order, with its
\* embedding exactly when the embedder delivered one.
StoredOnce ==
    /\ Len(storeCalls) = Len(extraction.lessons)
    /\ \A i \in 1..Len(storeCalls) :
          /\ storeCalls[i].lesson = extraction.lessons[i]
          /\ storeCalls[i].call = IF storeCalls[i].embedded
                                  THEN "StoreLessonWithEmbedding" ELSE "CreateLesson"

\* C34: when ExtractFromLoop has returned, exactly one standing lesson has
\* been stored if the terminal reason is max_iterations, inner_loop or
\* parse_failures, whatever the transcript, and none for any other reason;
\* and every lesson emitted has caused exactly one store call.
C34_StandingLessonPerReason ==
    extraction.pc = "done"
        => /\ Cardinality(StandingStored) =
                 IF extraction.terminalReason \in StandingReasons THEN 1 ELSE 0
           /\ StoredOnce

\* C34 for the transcripts that have an action.
C34_StandingLessonUnlessEmpty ==
    (extraction.pc = "done" /\ Len(extraction.entries) > 0)
        => /\ Cardinality(StandingStored) =
                 IF extraction.terminalReason \in StandingReasons THEN 1 ELSE 0
           /\ StoredOnce

----------------------------------------------------------------------------
(* SpecRank: providers are registered with the scorer and ranked for a
   complexity.  The scorer's code is not among the sources; it is modelled
   from the specification (section 4.4) and from the scorer's tests. *)

\* The complexity levels.
Complexities == {"simple", "medium", "complex", "extended"}

\* GetModelTier: Small (1) up to 7B, Medium (2) up to 40B, Large (3) up to
\* 100B, XLarge (4) above.
GetModelTier(paramsB) ==
    IF paramsB <= 7 THEN 1
    ELSE IF paramsB <= 40 THEN 2
    ELSE IF paramsB <= 100 THEN 3
    ELSE 4

\* RequiredModelTier: Simple -> Small, Medium -> Medium, Complex -> Large,
\* Extended -> XLarge.
RequiredModelTier(complexity) ==
    IF complexity = "simple" THEN 1
    ELSE IF complexity = "medium" THEN 2
    ELSE IF complexity = "complex" THEN 3
    ELSE 4

\* A test that asks for a tier above the required one.
SufficientAbove(tier, required) == tier > required

\* "A model at tier T is sufficient for complexities <= T."
Sufficient(tier, required) == tier >= required

\* The rolling metrics of a provider, normalized to 0 or 1.
Healthy == [health |-> 1, latency |-> 0, error |-> 0, cost |-> 0]
Degraded == [health |-> 0, latency |-> 1, error |-> 1, cost |-> 1]

\* The score, in tenths: 0.4 health + 0.3 (1 - latency) + 0.2 (1 - error rate)
\* + 0.1 (1 - cost).
Score(m) == 4 * m.health + 3 * (1 - m.latency) + 2 * (1 - m.error) + (1 - m.cost)

\* The model sizes registered, in billions of parameters.
ModelSizes == {7, 32, 70, 480}

\* Provider i comes before provider j in the ranking for the required tier:
\* the providers that suffice first, by score, and among equal scores the
\* smaller tier; then the others, the largest tier first.  The order of
\* registration decides what is left.
RankedBefore(table, required, i, j) ==
    LET ti == GetModelTier(table[i].paramsB)
        tj == GetModelTier(table[j].paramsB)
        si == Score(table[i].metrics)
        sj == Score(table[j].metrics)
    IN IF Sufficient(ti, required) # Sufficient(tj, required)
         THEN Sufficient(ti, required)
       ELSE IF Sufficient(ti, required)
         THEN IF si # sj THEN si > sj
              ELSE IF ti # tj THEN ti < tj
              ELSE i < j
       ELSE IF ti # tj THEN ti > tj
       ELSE IF si # sj THEN si > sj
       ELSE i < j

\* The providers of the set in ranking order.
RECURSIVE RankSet(_, _, _)
RankSet(table, required, ids) ==
    IF ids = {} THEN <<>>
    ELSE LET first == CHOOSE i \in ids :
                         \A j \in ids \ {i} : RankedBefore(table, required, i, j)
         IN <<first>> \o RankSet(table, required, ids \ {first})

\* UpdateProviderMetrics for a provider the scorer does not know yet.
UpdateProviderMetrics(paramsB, metrics) ==
    /\ Len(providerMetrics) < MaxProviders
    /\ providerMetrics' = Append(providerMetrics, [paramsB |-> paramsB, metrics |-> metrics])
    /\ ranking' = NoRanking
    /\ UNCHANGED outsideRank

\* RankProvidersForComplexity for all the registered providers.
RankProvidersForComplexity(complexity) ==
    /\ ranking' = [asked |-> TRUE, complexity |-> complexity,
                   order |-> RankSet(providerMetrics, RequiredModelTier(complexity),
                                     DOMAIN providerMetrics)]
    /\ UNCHANGED providerMetrics
    /\ UNCHANGED outsideRank

InitRank == InitLoop

NextRank ==
    \/ \E paramsB \in ModelSizes : \E metrics \in {Healthy, Degraded} :
          UpdateProviderMetrics(paramsB, metrics)
    \/ \E complexity \in Complexities : RankProvidersForComplexity(complexity)

SpecRank == InitRank /\ [][NextRank]_vars

\* All registered providers have the same metrics.
EqualMetrics ==
    \A i \in DOMAIN providerMetrics : \A j \in DOMAIN providerMetrics :
        providerMetrics[i].metrics = providerMetrics[j].metrics

\* The tier of a registered provider, by the size classes of the glossary.
TierOf(i) ==
    LET b == providerMetrics[i].paramsB
    IN CHOOSE t \in 1..4 : /\ (t = 1) <=> (b <= 7)
                           /\ (t = 2) <=> (b > 7 /\ b <= 40)
                           /\ (t = 3) <=> (b > 40 /\ b <= 100)
                           /\ (t = 4) <=> (b > 100)

\* The tier the complexity asks for.
TierFor(complexity) ==
    CHOOSE t \in 1..4 :
        complexity = <<"simple", "medium", "complex", "extended">>[t]

\* C31: for providers with equal metrics the ranking is a permutation of the
\* providers whose first element has the smallest tier that is at least the
\* tier the complexity requires, and the largest tier when no provider
\* reaches the required tier.
C31_FirstIsSmallestSufficient ==
    (ranking.asked /\ providerMetrics # <<>> /\ EqualMetrics)
        => LET ids == DOMAIN providerMetrics
               required == TierFor(ranking.complexity)
               able == {i \in ids : TierOf(i) >= required}
               first == ranking.order[1]
           IN /\ Len(ranking.order) = Len(providerMetrics)
              /\ \A i \in ids : \E k \in DOMAIN ranking.order : ranking.order[k] = i
              /\ IF able # {}
                 THEN first \in able /\ \A i \in able : TierOf(first) <= TierOf(i)
                 ELSE \A i \in ids : TierOf(i) <= TierOf(first)

\* 7B, 32B, 70B and 480B, all healthy, ranked for a complex task: large,
\* xlarge, medium, small.
C31_Witness ==
    /\ ranking.asked
    /\ ranking.complexity = "complex"
    /\ EqualMetrics
    /\ [i \in DOMAIN providerMetrics |-> providerMetrics[i].paramsB] = <<7, 32, 70, 480>>
    /\ ranking.order = <<3, 4, 2, 1>>

\* 7B and 32B ranked for an extended task: no provider suffices, the larger
\* one comes first.
C31_WitnessFallback ==
    /\ ranking.asked
    /\ ranking.complexity = "extended"
    /\ EqualMetrics
    /\ [i \in DOMAIN providerMetrics |-> providerMetrics[i].paramsB] = <<7, 32>>
    /\ ranking.order = <<2, 1>>

====
